---- MODULE Spec2Model ----
(***************************************************************************)
(* Geofence exit detection and auto clock-out reconciliation engine of     *)
(* pioneer-autotime-worker: the track-location ingestion handler, the      *)
(* check-grace-expiry sweep and the overtime sweeps, modelled as processes *)
(* over the shared clock_entries / geofence_events / notifications tables. *)
(* A handler runs as a process whose steps are its awaited datastore calls; *)
(* consecutive reads that no write of the handler separates are one step.  *)
(*                                                                         *)
(* Time is counted in whole minutes since midnight of day 0.  total_hours  *)
(* is kept in minutes (hours * 60), so 3 h = 180 and 3.167 h = 190.02.     *)
(***************************************************************************)
EXTENDS Integers, Sequences, FiniteSets, TLC

\* ---------------------------------------------------------------- bounds
MaxSamples == 3          \* location samples posted while one sweep runs at a time
MaxRaceSamples == 2      \* location samples posted while sweeps overlap
MaxTime == 1172          \* last instant the clock is advanced to
MaxOTSamples == 2        \* location samples posted while the overtime sweeps run
MaxTimeOT == 1205        \* last instant of the overtime scenarios
MaxTrackSamples == 2     \* location samples posted while the responses are observed
MaxTimeTrack == 1172     \* last instant of the scenarios of the classifier
MaxFaults == 1           \* datastore calls that fail in a scenario
MaxFaultSamples == 2     \* location samples posted in the scenarios with failures
MaxTimeFault == 1166     \* last instant of the scenarios with failures
MaxStaleSamples == 2     \* location samples posted in the scenarios with old samples
MaxTimeStale == 2612     \* last instant of the scenarios with old samples
MaxMixedSamples == 2     \* location samples posted while both kinds of sweep run
MaxTimeMixed == 1172     \* last instant of the scenarios with both kinds of sweep
MaxGateSamples == 2      \* location samples posted in the scenarios of the gate
MaxTimeGate == 1220      \* last instant of the scenarios of the gate
MaxShiftEndSamples == 2   \* location samples posted for each text of a shift end
MaxTimeShiftEnd == 1172    \* last instant of the scenarios of the shift end texts
MaxRadiusSamples == 2     \* location samples posted for each radius of the fence
MaxTimeRadius == 1172      \* last instant of the scenarios of the radii
MaxPayloadSamples == 2    \* location samples posted with payloads of every kind
MaxTimePayload == 1172     \* last instant of the scenarios of the payloads
MaxApprovals == 2         \* managers who approve the overtime entry from their list
MaxMergeCalls == 2         \* calls of mergeOvertimeHours made on their own
MaxAccepts == 2           \* acceptances of the RAMS dialog that are followed
MaxRadius == 520         \* largest geofence radius a helper is evaluated on
MaxDistance == 200       \* largest distance a helper is evaluated on

\* ------------------------------------------------------------- constants
NULL == -1               \* SQL null of a timestamp / number column
GRACE_MINUTES == 4
RACE_BUFFER_SEC == 60
ACCURACY_PASS_M == 50
AUTO_WINDOW_MINUTES == 60
AUTO_DELAY == GRACE_MINUTES + (RACE_BUFFER_SEC \div 60)
STALE_AGE == 24 * 60
DAY == 24 * 60
HOUR == 60
MAX_OT_HOURS == 3
GRACE_PERIOD_MINUTES == 5

Workers == {"w1", "w2"}
Sessions == {"s1", "s2"}
GraceProcs == {"g1", "g2"}
MonProcs == {"m1", "m2"}

\* worker.shift_end, already parsed to a minute of the day
ShiftEndOf == [w \in Workers |-> IF w = "w1" THEN 1170 ELSE 1020]
\* jobs.geofence_radius of the job of each session
RadiusOf == [s \in Sessions |-> 100]

\* the samples of the mobile client: distance from the site centre, accuracy
SampleDists == {40, 130}
SampleAccs == {10, 80}
\* minutes between the time a sample was taken and the time it is posted
SampleAges == {0, 60}

MinuteOfDay(t) == t % DAY
DateOf(t) == t \div DAY

VARIABLES
    now,        \* wall clock
    dowShift,   \* day of week of day 0
    jobs,       \* jobs: the site of each clock entry
    shiftEnd,   \* workers.shift_end, as stored
    faults,     \* datastore calls that may still fail
    fnCall,     \* the last evaluation of a helper function on its own
    dlg,        \* the RAMS acceptance dialog of the mobile client
    sessions,   \* clock_entries
    events,     \* geofence_events
    notifs,     \* notifications, in insertion order
    nextId,     \* next geofence_events.id
    samples,    \* samples the client may still post
    tpc, tReq,  \* track-location request in flight
    gpc, gNow, gExits, gCur, gFix, gEntry,   \* check-grace-expiry invocations
    gFacts,     \* history: what held when the current row was picked
    updates,    \* history: every clock_entries update issued by a sweep
    mpc, mImpl, mNow, mWorkers, mRows, mCur, mNote,   \* overtime sweep invocations
    mFacts      \* history: the overtime sessions due when the invocation started

dbVars == <<sessions, events, notifs, nextId>>
trackVars == <<samples, tpc, tReq>>
graceVars == <<gpc, gNow, gExits, gCur, gFix, gEntry, gFacts>>
monVars == <<mpc, mImpl, mNow, mWorkers, mRows, mCur, mNote, mFacts>>
cfgVars == <<dowShift, jobs, shiftEnd>>
envVars == <<cfgVars, faults, fnCall, dlg>>
vars == <<now, dowShift, jobs, shiftEnd, faults, fnCall, dlg, sessions, events, notifs, nextId, samples, tpc, tReq,
          gpc, gNow, gExits, gCur, gFix, gEntry, gFacts, updates,
          mpc, mImpl, mNow, mWorkers, mRows, mCur, mNote, mFacts>>

\* ------------------------------------------------------- geofence maths
SAFE_OUT_TABLE == [r \in {50, 100, 200, 300, 400, 500} |->
    CASE r = 50 -> 90 [] r = 100 -> 150 [] r = 200 -> 260
      [] r = 300 -> 380 [] r = 400 -> 500 [] r = 500 -> 625]

\* SAFE_OUT_TABLE[radius] || radius * 1.25.  A threshold is kept in quarters of
\* a metre, which makes radius * 1.25 exact for every whole radius.
getSafeOutThreshold_Radius(radius) == 4 * radius
getSafeOutThreshold_Table(radius) ==
    IF radius \in DOMAIN SAFE_OUT_TABLE THEN 4 * SAFE_OUT_TABLE[radius]
    ELSE 4 * radius
getSafeOutThreshold(radius) ==
    IF radius \in DOMAIN SAFE_OUT_TABLE /\ SAFE_OUT_TABLE[radius] # 0
    THEN 4 * SAFE_OUT_TABLE[radius]
    ELSE 5 * radius

Max2(a, b) == IF a >= b THEN a ELSE b

\* threshold in quarters of a metre, the other lengths in metres;
\* distance >= radius + max(25, accuracy / 2) with both sides doubled
reliableExit_Band(distance, accuracy, radius, threshold) ==
    \/ 4 * distance >= threshold /\ 4 * distance <= 2 * threshold
    \/ /\ accuracy <= ACCURACY_PASS_M
       /\ 2 * distance >= 2 * radius + Max2(50, accuracy)
reliableExit_AnyAccuracy(distance, accuracy, radius, threshold) ==
    \/ 4 * distance >= threshold
    \/ 2 * distance >= 2 * radius + Max2(50, accuracy)
reliableExit(distance, accuracy, radius, threshold) ==
    \/ 4 * distance >= threshold
    \/ /\ accuracy <= ACCURACY_PASS_M
       /\ 2 * distance >= 2 * radius + Max2(50, accuracy)


\* ------------------------------------------------- workers.shift_end text
\* A text is a tuple of one-character strings.
DigitChars == {"0", "1", "2", "3", "4", "5", "6", "7", "8", "9"}
DigitVal == [c \in DigitChars |->
    CASE c = "0" -> 0 [] c = "1" -> 1 [] c = "2" -> 2 [] c = "3" -> 3
      [] c = "4" -> 4 [] c = "5" -> 5 [] c = "6" -> 6 [] c = "7" -> 7
      [] c = "8" -> 8 [] c = "9" -> 9]
DigitChar == [d \in 0..9 |-> CHOOSE c \in DigitChars : DigitVal[c] = d]

AllDigits(s) == \A i \in 1..Len(s) : s[i] \in DigitChars

\* parseInt(s, 10) of one or two digits
parseInt(s) ==
    IF Len(s) = 1 THEN DigitVal[s[1]] ELSE 10 * DigitVal[s[1]] + DigitVal[s[2]]

toLowerCase_AsTyped(s) == s
toLowerCase(s) == [i \in 1..Len(s) |->
    CASE s[i] = "A" -> "a" [] s[i] = "P" -> "p" [] s[i] = "M" -> "m"
      [] OTHER -> s[i]]

RECURSIVE trimStart(_)
trimStart(s) == IF s # <<>> /\ Head(s) = " " THEN trimStart(Tail(s)) ELSE s

RECURSIVE trimEnd(_)
trimEnd(s) ==
    IF s # <<>> /\ s[Len(s)] = " " THEN trimEnd(SubSeq(s, 1, Len(s) - 1)) ELSE s

trim(s) == trimEnd(trimStart(s))

NoParse == [hour |-> NULL, minute |-> NULL]

\* ^(\d{1,2}):(\d{2})(?::\d{2})?$  -- the position of the first colon, or 0
Match24(s) ==
    IF \E p \in {2, 3} :
          /\ Len(s) \in {p + 2, p + 5}
          /\ s[p] = ":"
          /\ AllDigits(SubSeq(s, 1, p - 1))
          /\ AllDigits(SubSeq(s, p + 1, p + 2))
          /\ Len(s) = p + 5 => s[p + 3] = ":" /\ AllDigits(SubSeq(s, p + 4, p + 5))
    THEN CHOOSE p \in {2, 3} : Len(s) >= p /\ s[p] = ":"
    ELSE 0

\* ^(\d{1,2})(?::(\d{2}))?\s*(am|pm)$ -- the text before the meridiem, or <<>>
Match12(s) ==
    IF Len(s) >= 3 /\ s[Len(s)] = "m" /\ s[Len(s) - 1] \in {"a", "p"}
    THEN LET t == trimEnd(SubSeq(s, 1, Len(s) - 2)) IN
         IF \/ Len(t) \in {1, 2} /\ AllDigits(t)
            \/ \E p \in {2, 3} : /\ Len(t) = p + 2
                                 /\ t[p] = ":"
                                 /\ AllDigits(SubSeq(t, 1, p - 1))
                                 /\ AllDigits(SubSeq(t, p + 1, p + 2))
         THEN t ELSE <<>>
    ELSE <<>>

parseShiftEnd(text) ==
    LET s == toLowerCase(trim(text))
        p == Match24(s)
        t == Match12(s)
    IN  IF p # 0
        THEN LET hour == parseInt(SubSeq(s, 1, p - 1))
                 minute == parseInt(SubSeq(s, p + 1, p + 2))
             IN  IF hour <= 23 /\ minute <= 59
                 THEN [hour |-> hour, minute |-> minute] ELSE NoParse
        ELSE IF t # <<>>
        THEN LET q == IF Len(t) <= 2 THEN Len(t) + 1
                      ELSE CHOOSE i \in {2, 3} : t[i] = ":"
                 hour == parseInt(SubSeq(t, 1, q - 1))
                 minute == IF Len(t) <= 2 THEN 0
                           ELSE parseInt(SubSeq(t, q + 1, q + 2))
                 pm == s[Len(s) - 1] = "p"
             IN  IF hour < 1 \/ hour > 12 \/ minute > 59 THEN NoParse
                 ELSE [hour |-> IF pm /\ hour # 12 THEN hour + 12
                                ELSE IF ~pm /\ hour = 12 THEN 0 ELSE hour,
                       minute |-> minute]
        ELSE NoParse

\* `${String(hour).padStart(2, "0")}:${String(minute).padStart(2, "0")}`
normalizedShiftEnd(parsed) ==
    <<DigitChar[parsed.hour \div 10], DigitChar[parsed.hour % 10], ":",
      DigitChar[parsed.minute \div 10], DigitChar[parsed.minute % 10]>>

\* the column of a worker: null, or a text
NullText == [set |-> FALSE, text |-> <<>>]
Text(s) == [set |-> TRUE, text |-> s]
\* the HH:MM text of a minute of the day
ShiftEndText(m) == Text(normalizedShiftEnd([hour |-> m \div 60, minute |-> m % 60]))

\* The window is taken around today's shift end and tested against the clock of
\* the server when the request is handled; the clock-in passed in is not used.
checkLastHourWindow(clockInIso, shiftEndText) ==
    LET parsed == parseShiftEnd(shiftEndText) IN
    /\ parsed # NoParse
    /\ LET shiftEndTime == parsed.hour * 60 + parsed.minute IN
       /\ MinuteOfDay(now) >= shiftEndTime - AUTO_WINDOW_MINUTES
       /\ MinuteOfDay(now) <= shiftEndTime

\* ------------------------------------------------------------ the tables
NoRow == [id |-> 0]
NoReq == [sid |-> "none"]
NoResp == [status |-> "none", error |-> "none", http |-> 0]
Response(status, error, http) == [status |-> status, error |-> error, http |-> http]
NoCall == [fn |-> "none"]
NoEntry == [clock_in |-> NULL]
NoFacts == [picked |-> FALSE, failed |-> {}]
NoCur == [sid |-> "none"]
NoNote == [type |-> "none"]
NoDue == [due |-> {}, failed |-> {}]

EventRow(id, sid, type, ts, dist, acc, radius, thr) ==
    [id |-> id, sid |-> sid, wid |-> sessions[sid].worker_id, type |-> type,
     ts |-> ts, dist |-> dist, acc |-> acc, radius |-> radius, thr |-> thr,
     resolved_at |-> NULL]

\* RAMSAcceptanceDialog before it is first shown: the open and loading props,
\* the section the accordion shows, the component state (openedSections,
\* confirmed), and as history the sections opened since the dialog was last
\* opened, the calls of onAccept and whether one came without them
DialogClosed ==
    [open |-> FALSE, loading |-> FALSE, expanded |-> "",
     rams |-> FALSE, site |-> FALSE, confirmed |-> FALSE,
     seenRams |-> FALSE, seenSite |-> FALSE, accepts |-> 0, accepted |-> FALSE,
     unseenAccept |-> FALSE]

\* a job with its coordinates present or not, its radius and its geofence switch
Job(located, radius, enabled) ==
    [located |-> located, radius |-> radius, enabled |-> enabled]

\* geofence_exit_data of a clock entry: none, or the figures of an exit row
NoExitData == [distance |-> NULL, accuracy |-> NULL, threshold |-> NULL, radius |-> NULL]
GeofenceExitData(exit) ==
    [distance |-> exit.dist, accuracy |-> exit.acc, threshold |-> exit.thr,
     radius |-> exit.radius]

OpenSession(w, clockIn, ot) ==
    [worker_id |-> w, clock_in |-> clockIn, clock_out |-> NULL,
     is_overtime |-> ot, auto_clocked_out |-> FALSE,
     auto_clockout_type |-> "none", total_hours |-> NULL, reason |-> "none",
     geofence_exit_data |-> NoExitData,
     ot_status |-> IF ot THEN "pending" ELSE "none", linked_shift_id |-> "none"]

\* s1 is the regular session of w1 (or an overtime one), s2 the overtime session
\* of w2; the site of s1 and the shift end of w1 are drawn from the sets given.
\* the state before any request or invocation, but for the clock entries
InitAround(t0, dows, budget, s1Jobs, w1ShiftEnds, maxFaults, calls) ==
    /\ now = t0
    /\ dowShift \in dows
    /\ \E j \in s1Jobs :
         jobs = [s \in Sessions |->
            IF s = "s1" THEN j ELSE Job(TRUE, RadiusOf[s], TRUE)]
    /\ \E e \in w1ShiftEnds :
         shiftEnd = [w \in Workers |->
            IF w = "w1" THEN e ELSE ShiftEndText(ShiftEndOf[w])]
    /\ faults = maxFaults
    /\ fnCall \in calls
    /\ dlg = DialogClosed
    /\ events = {}
    /\ notifs = <<>>
    /\ nextId = 1
    /\ samples = budget
    /\ tpc = "idle"
    /\ tReq = NoReq
    /\ gpc = [p \in GraceProcs |-> "idle"]
    /\ gNow = [p \in GraceProcs |-> 0]
    /\ gExits = [p \in GraceProcs |-> {}]
    /\ gCur = [p \in GraceProcs |-> NoRow]
    /\ gFix = [p \in GraceProcs |-> NoRow]
    /\ gEntry = [p \in GraceProcs |-> NoEntry]
    /\ gFacts = [p \in GraceProcs |-> NoFacts]
    /\ updates = {}
    /\ mpc = [p \in MonProcs |-> "idle"]
    /\ mImpl = [p \in MonProcs |-> "none"]
    /\ mNow = [p \in MonProcs |-> 0]
    /\ mWorkers = [p \in MonProcs |-> {}]
    /\ mRows = [p \in MonProcs |-> {}]
    /\ mCur = [p \in MonProcs |-> NoCur]
    /\ mNote = [p \in MonProcs |-> NoNote]
    /\ mFacts = [p \in MonProcs |-> NoDue]

InitWith(t0, s1ClockIns, s1Overtime, otClockIns, dows, budget, s1Jobs, w1ShiftEnds, maxFaults, calls) ==
    /\ InitAround(t0, dows, budget, s1Jobs, w1ShiftEnds, maxFaults, calls)
    /\ \E c1 \in s1ClockIns, ot \in s1Overtime, ci \in otClockIns :
         sessions = [s \in Sessions |->
            IF s = "s1" THEN OpenSession("w1", c1, ot)
            ELSE OpenSession("w2", ci, TRUE)]

\* the sites valid and fenced, the shift ends stored as HH:MM, no failing call
InitAt(t0, otClockIns, dows, budget) ==
    InitWith(t0, {690}, {FALSE}, otClockIns, dows, budget,
             {Job(TRUE, RadiusOf["s1"], TRUE)}, {ShiftEndText(ShiftEndOf["w1"])}, 0, {NoCall})

\* the sites a clock entry may belong to: fenced, without coordinates, unfenced
SiteJobs == {Job(TRUE, 100, TRUE), Job(FALSE, 100, TRUE), Job(TRUE, 100, FALSE),
             Job(FALSE, 100, FALSE)}
\* the shift ends a worker row may hold
ShiftEndTexts ==
    {NullText,
     Text(<<" ", " ">>),
     Text(<<"1", "9", ":", "3", "0">>),
     Text(<<"7", ":", "3", "0", " ", "P", "M">>),
     Text(<<"2", "5", ":", "0", "0">>)}

Init == InitAt(1160, {1140}, {1}, MaxRaceSamples)
InitSeq == InitAt(1160, {1140}, {1}, MaxSamples)
\* 20:00, the overtime session 4.5 h, 3 h or 5 min old, a Monday or a Saturday
InitOT == InitAt(1200, {930, 1020, 1195}, {1, 6}, MaxOTSamples)
\* 19:20, s1 clocked in at 18:25: any site, or any shift end, or a site without
\* coordinates and switched off with no shift end, or s1 an overtime session
InitTrack ==
    \/ InitWith(1160, {1105}, {FALSE}, {1140}, {1}, MaxTrackSamples,
                SiteJobs, {ShiftEndText(ShiftEndOf["w1"])}, 0, {NoCall})
    \/ InitWith(1160, {1105}, {FALSE}, {1140}, {1}, MaxTrackSamples,
                {Job(TRUE, RadiusOf["s1"], TRUE)}, ShiftEndTexts, 0, {NoCall})
    \/ InitWith(1160, {1105}, {FALSE}, {1140}, {1}, MaxTrackSamples,
                {Job(FALSE, RadiusOf["s1"], FALSE)}, {NullText}, 0, {NoCall})
    \/ InitWith(1160, {1105}, {TRUE}, {1140}, {1}, MaxTrackSamples,
                {Job(TRUE, RadiusOf["s1"], TRUE)}, {ShiftEndText(ShiftEndOf["w1"])}, 0, {NoCall})

\* ------------------------------------------------------------ environment
Tick(steps, last) ==
    /\ \E d \in steps : now + d <= last /\ now' = now + d
    /\ UNCHANGED <<envVars, dbVars, trackVars, graceVars, updates, monVars>>

\* the user clocks an open session out by hand
ManualClockOut(s) ==
    /\ sessions[s].clock_out = NULL
    /\ sessions' = [sessions EXCEPT ![s].clock_out = now,
                                    ![s].total_hours = now - sessions[s].clock_in]
    /\ UNCHANGED <<now, envVars, events, notifs, nextId, trackVars, graceVars, updates, monVars>>

\* ------------------------------------------------- track-location handler
\* The sample carries the time the client took it; the distance of the sample
\* from the site centre stands for its coordinates.
\* 1. the open clock entry of the worker, read with its job; 2. the job must have
\* coordinates and a radius; 2a. a job with the geofence switched off only logs.
StartStatus_AnyEntry(entry, job) ==
    IF ~job.located \/ job.radius = 0 THEN "Invalid job data"
    ELSE IF ~job.enabled THEN "geofence_disabled"
    ELSE "tracking"
StartStatus_SwitchFirst(entry, job) ==
    IF entry.clock_out # NULL THEN "not_clocked_in"
    ELSE IF ~job.enabled THEN "geofence_disabled"
    ELSE IF ~job.located \/ job.radius = 0 THEN "Invalid job data"
    ELSE "tracking"
StartStatus(entry, job) ==
    IF entry.clock_out # NULL THEN "not_clocked_in"
    ELSE IF ~job.located \/ job.radius = 0 THEN "Invalid job data"
    ELSE IF ~job.enabled THEN "geofence_disabled"
    ELSE "tracking"

\* the request as it ends: with its response while the responses are observed
Responded(req, resp, observed) ==
    IF observed THEN [req EXCEPT !.resp = resp] ELSE NoReq

TrackStart(s, dist, acc, age, observed) ==
    /\ tpc = "idle"
    /\ samples > 0
    /\ samples' = samples - 1
    /\ LET status == StartStatus(sessions[s], jobs[s])
           fenced == status = "tracking"
           req == [sid |-> s, acc |-> acc, ts |-> now - age,
                   found |-> sessions[s].clock_out = NULL,
                   is_overtime |-> sessions[s].is_overtime,
                   clock_in |-> sessions[s].clock_in,
                   gateAt |-> NULL,
                   measured |-> dist,
                   dist |-> IF fenced THEN dist ELSE 0,
                   radius |-> jobs[s].radius,
                   thr |-> IF fenced THEN getSafeOutThreshold(jobs[s].radius) ELSE 0,
                   fixes |-> 0,
                   resp |-> NoResp]
       IN  CASE status = "not_clocked_in" ->
                  /\ tpc' = "idle"
                  /\ tReq' = Responded(req, Response(status, "none", 200), observed)
             [] status = "Invalid job data" ->
                  /\ tpc' = "idle"
                  /\ tReq' = Responded(req, Response("none", status, 400), observed)
             [] OTHER ->
                  /\ tpc' = "fix"
                  /\ tReq' = req
    /\ UNCHANGED <<now, envVars, dbVars, graceVars, updates, monVars>>

\* 1. the clock entry is read by id, worker and clock_out null: a payload that
\* names no clock entry, or the entry of another worker, finds none
EntryOf(sid, wid) == sid \in Sessions /\ sessions[sid].worker_id = wid

TrackStartPayload(sid, wid, dist, acc, age, observed) ==
    IF EntryOf(sid, wid)
    THEN TrackStart(sid, dist, acc, age, observed)
    ELSE /\ tpc = "idle"
         /\ samples > 0
         /\ samples' = samples - 1
         /\ tpc' = "idle"
         /\ tReq' = Responded([sid |-> sid, wid |-> wid, acc |-> acc, ts |-> now - age,
                               found |-> FALSE, gateAt |-> NULL, measured |-> dist,
                               fixes |-> 0, resp |-> NoResp],
                              Response("not_clocked_in", "none", 200), observed)
         /\ UNCHANGED <<now, envVars, dbVars, graceVars, updates, monVars>>

InsertEvent(row) ==
    /\ events' = events \cup {row}
    /\ nextId' = nextId + 1

\* the location_fix row of a sample: distance and threshold as computed in
\* steps 3 and 4, or 0 and 0 when the geofence is switched off
FixRow_Measured(id, req) ==
    EventRow(id, req.sid, "location_fix", req.ts, req.measured, req.acc, req.radius,
             getSafeOutThreshold(req.radius))
FixRow_Unmeasured(id, req) ==
    EventRow(id, req.sid, "location_fix", req.ts, 0, req.acc, req.radius, 0)
FixRow(id, req) ==
    EventRow(id, req.sid, "location_fix", req.ts, req.dist, req.acc, req.radius, req.thr)

\* 2a, 5. record the location fix
TrackInsertFix(observed) ==
    /\ tpc = "fix"
    /\ InsertEvent(FixRow(nextId, tReq))
    /\ IF jobs[tReq.sid].enabled
       THEN /\ tpc' = "gate"
            /\ tReq' = [tReq EXCEPT !.fixes = @ + 1]
       ELSE /\ tpc' = "idle"
            /\ tReq' = Responded([tReq EXCEPT !.fixes = @ + 1],
                                 Response("geofence_disabled", "none", 200), observed)
    /\ UNCHANGED <<now, envVars, sessions, notifs, samples, graceVars, updates, monVars>>

\* 6. a regular shift needs a shift end that parses and the last-hour window
ShiftEndStatus(req, col) ==
    IF ~col.set \/ col.text = <<>> \/ trim(col.text) = <<>> THEN "no_shift_end"
    ELSE LET parsedShiftEnd == parseShiftEnd(trim(col.text)) IN
         IF parsedShiftEnd = NoParse THEN "invalid_shift_end"
         ELSE IF ~checkLastHourWindow(req.clock_in, normalizedShiftEnd(parsedShiftEnd))
         THEN "outside_window"
         ELSE "in_window"

\* 6. overtime, or the last-hour window of a regular shift
ExitApplies_WindowOnly(req) ==
    ShiftEndStatus(req, shiftEnd[sessions[req.sid].worker_id]) = "in_window"
ExitApplies(req) ==
    \/ req.is_overtime
    \/ ShiftEndStatus(req, shiftEnd[sessions[req.sid].worker_id]) = "in_window"

\* 6, 7. the status the request ends with unless the exit is recorded
GateStatus(req) ==
    IF ~ExitApplies(req)
    THEN ShiftEndStatus(req, shiftEnd[sessions[req.sid].worker_id])
    ELSE IF ~reliableExit(req.dist, req.acc, req.radius, req.thr) THEN "inside_fence"
    ELSE "exit_detected"

TrackGate(observed) ==
    /\ tpc = "gate"
    /\ LET status == GateStatus(tReq) IN
       IF status = "exit_detected"
       THEN /\ tpc' = "exit"
            /\ tReq' = IF observed THEN [tReq EXCEPT !.gateAt = now] ELSE tReq
       ELSE /\ tpc' = "idle"
            /\ tReq' = Responded([tReq EXCEPT !.gateAt = now],
                                 IF status = "invalid_shift_end"
                                 THEN Response(status, "shift_end format", 400)
                                 ELSE Response(status, "none", 200),
                                 observed)
    /\ UNCHANGED <<now, envVars, dbVars, samples, graceVars, updates, monVars>>

\* the clock entry as the handler leaves it: no statement of it writes clock_entries
TrackedEntry_ClosedAtExit(entry, req) == [entry EXCEPT !.clock_out = req.ts]
TrackedEntry(entry, req) == entry

\* 8. record exit_detected; the sweeps do the rest
TrackInsertExit(observed) ==
    /\ tpc = "exit"
    /\ InsertEvent(EventRow(nextId, tReq.sid, "exit_detected", tReq.ts,
                            tReq.dist, tReq.acc, tReq.radius, tReq.thr))
    /\ sessions' = [sessions EXCEPT ![tReq.sid] = TrackedEntry(@, tReq)]
    /\ tpc' = "idle"
    /\ tReq' = Responded(tReq, Response("exit_detected", "none", 200), observed)
    /\ UNCHANGED <<now, envVars, notifs, samples, graceVars, updates, monVars>>

Track(tracked, accs, ages, observed) ==
    \/ \E s \in tracked, dist \in SampleDists, acc \in accs, age \in ages :
          TrackStart(s, dist, acc, age, observed)
    \/ TrackInsertFix(observed)
    \/ TrackGate(observed)
    \/ TrackInsertExit(observed)

\* one clock_entries update of a sweep, as issued
Update(by, kind, sid, row, matched, wrote, cause, total, sinceExit) ==
    [by |-> by, kind |-> kind, sid |-> sid, row |-> row, matched |-> matched,
     wrote |-> wrote, cause |-> cause, total |-> total, sinceExit |-> sinceExit]

\* ---------------------------------------------- check-grace-expiry sweep
Notification(w, type, key, at) ==
    [worker_id |-> w, type |-> type, dedupe_key |-> key, created_at |-> at]

\* a re_entry or exit_confirmed event of the clock entry exists
AlreadyHandled_Never(evs, sid) == FALSE
AlreadyHandled(evs, sid) ==
    \E e \in evs : e.sid = sid /\ e.type \in {"re_entry", "exit_confirmed"}

\* location_fix rows after the exit that show the worker back inside
InsideFixes_Before(evs, exit) ==
    {f \in evs : /\ f.sid = exit.sid
                 /\ f.type = "location_fix"
                 /\ f.ts < exit.ts
                 /\ f.dist <= f.radius
                 /\ f.acc <= ACCURACY_PASS_M}
InsideFixes(evs, exit) ==
    {f \in evs : /\ f.sid = exit.sid
                 /\ f.type = "location_fix"
                 /\ f.ts > exit.ts
                 /\ f.dist <= f.radius
                 /\ f.acc <= ACCURACY_PASS_M}

ManuallyClosed(entry) == entry.clock_out # NULL /\ ~entry.auto_clocked_out

\* history only: the conditions the properties speak of, taken when a row is picked
HandledEventExists(sid) ==
    \E e \in events : e.sid = sid /\ e.type \in {"re_entry", "exit_confirmed"}
BackInsideFixExists(exit) ==
    \E f \in events : /\ f.sid = exit.sid /\ f.type = "location_fix"
                      /\ f.ts > exit.ts /\ f.dist <= f.radius
                      /\ f.acc <= ACCURACY_PASS_M

\* the rows the cleanup deletes: exit_detected, older than 24 h
StaleExits(evs, t) ==
    {e \in evs : e.type = "exit_detected" /\ e.ts < t - STALE_AGE}

\* invocation start: now, then the delete of exit_detected rows older than 24 h
GStart(p) ==
    /\ gpc[p] = "idle"
    /\ gNow' = [gNow EXCEPT ![p] = now]
    /\ events' = events \ StaleExits(events, now)
    /\ gpc' = [gpc EXCEPT ![p] = "select"]
    /\ UNCHANGED <<now, envVars, sessions, notifs, nextId, trackVars,
                   gExits, gCur, gFix, gEntry, gFacts, updates, monVars>>

\* 1. the exit_detected rows older than the delay and younger than 24 h
ExpiredExits_NoRetention(evs, t) ==
    {e \in evs : e.type = "exit_detected" /\ e.ts < t - AUTO_DELAY}
ExpiredExits(evs, t) ==
    {e \in evs : /\ e.type = "exit_detected"
                 /\ e.ts < t - AUTO_DELAY
                 /\ e.ts > t - STALE_AGE}

GSelect(p) ==
    /\ gpc[p] = "select"
    /\ gExits' = [gExits EXCEPT ![p] = ExpiredExits(events, gNow[p])]
    /\ gpc' = [gpc EXCEPT ![p] =
                 IF ExpiredExits(events, gNow[p]) = {} THEN "idle" ELSE "loop"]
    /\ gNow' = [gNow EXCEPT ![p] = 0]
    /\ UNCHANGED <<now, envVars, dbVars, trackVars, gCur, gFix, gEntry,
                   gFacts, updates, monVars>>

\* next row of the loop (the query states no order) and 2. the already-handled read
GCheckExisting(p) ==
    /\ gpc[p] = "loop"
    /\ \E exit \in gExits[p] :
         /\ gExits' = [gExits EXCEPT ![p] = @ \ {exit}]
         /\ gCur' = [gCur EXCEPT ![p] = exit]
         /\ gFacts' = [gFacts EXCEPT ![p] =
               [picked |-> TRUE,
                failed |-> gFacts[p].failed,
                handled |-> HandledEventExists(exit.sid),
                insideFix |-> BackInsideFixExists(exit),
                open |-> sessions[exit.sid].clock_out = NULL,
                pending |-> Cardinality({e \in events :
                               e.sid = exit.sid /\ e.type = "exit_detected"}),
                reentry |-> FALSE, updated |-> FALSE]]
         /\ gpc' = [gpc EXCEPT ![p] =
               IF AlreadyHandled(events, exit.sid) THEN "del_handled" ELSE "fixes"]
    /\ UNCHANGED <<now, envVars, dbVars, trackVars, gNow, gFix, gEntry, updates, monVars>>

DeleteById(evs, id) == {e \in evs : e.id # id}

GDeleteHandled(p) ==
    /\ gpc[p] = "del_handled"
    /\ events' = DeleteById(events, gCur[p].id)
    /\ gpc' = [gpc EXCEPT ![p] = "loop"]
    /\ UNCHANGED <<now, envVars, sessions, notifs, nextId, trackVars,
                   gNow, gExits, gCur, gFix, gEntry, gFacts, updates, monVars>>

\* 2b. location fixes after the exit
GReadFixes(p) ==
    /\ gpc[p] = "fixes"
    /\ IF InsideFixes(events, gCur[p]) # {}
       THEN /\ \E fix \in InsideFixes(events, gCur[p]) : gFix' = [gFix EXCEPT ![p] = fix]
            /\ gpc' = [gpc EXCEPT ![p] = "ins_reentry"]
       ELSE /\ gFix' = gFix
            /\ gpc' = [gpc EXCEPT ![p] = "read_entry"]
    /\ UNCHANGED <<now, envVars, dbVars, trackVars, gNow, gExits, gCur, gEntry,
                   gFacts, updates, monVars>>

\* x || y of the source: 0 is falsy
OrElse(x, y) == IF x # 0 THEN x ELSE y

GInsertReentry(p) ==
    /\ gpc[p] = "ins_reentry"
    /\ InsertEvent(EventRow(nextId, gCur[p].sid, "re_entry", now,
                            OrElse(gFix[p].dist, gCur[p].dist),
                            OrElse(gFix[p].acc, gCur[p].acc),
                            gCur[p].radius, gCur[p].thr))
    /\ gFacts' = [gFacts EXCEPT ![p].reentry = TRUE]
    /\ gpc' = [gpc EXCEPT ![p] = "del_reentry"]
    /\ UNCHANGED <<now, envVars, sessions, notifs, trackVars,
                   gNow, gExits, gCur, gFix, gEntry, updates, monVars>>

GDeleteReentry(p) ==
    /\ gpc[p] = "del_reentry"
    /\ events' = DeleteById(events, gCur[p].id)
    /\ gpc' = [gpc EXCEPT ![p] = "loop"]
    /\ UNCHANGED <<now, envVars, sessions, notifs, nextId, trackVars,
                   gNow, gExits, gCur, gFix, gEntry, gFacts, updates, monVars>>

\* 3. the clock entry: overtime entries and manual clock-outs are skipped
GraceSkips_ManualOnly(entry) == ManuallyClosed(entry)
GraceSkips(entry) == entry.is_overtime \/ ManuallyClosed(entry)

GReadEntry(p) ==
    /\ gpc[p] = "read_entry"
    /\ LET entry == sessions[gCur[p].sid] IN
       IF GraceSkips(entry)
       THEN /\ gpc' = [gpc EXCEPT ![p] = "loop"]
            /\ gEntry' = gEntry
       ELSE /\ gpc' = [gpc EXCEPT ![p] = "update"]
            /\ gEntry' = [gEntry EXCEPT ![p] = [clock_in |-> entry.clock_in]]
    /\ UNCHANGED <<now, envVars, dbVars, trackVars, gNow, gExits, gCur, gFix,
                   gFacts, updates, monVars>>

\* the filter of the update: .eq("id", ...).is("clock_out", null)
GraceUpdateFilter_NoGuard(entry) == TRUE
GraceUpdateFilter(entry) == entry.clock_out = NULL

\* the instant written as clock_out
GraceClockOut(exit, t) == exit.ts

\* 4. the auto clock-out update
GUpdate(p) ==
    /\ gpc[p] = "update"
    /\ LET sid == gCur[p].sid
           clockOutTime == GraceClockOut(gCur[p], now)
           totalHours == clockOutTime - gEntry[p].clock_in
           hit == GraceUpdateFilter(sessions[sid])
       IN /\ sessions' = IF hit
                THEN [sessions EXCEPT ![sid].clock_out = clockOutTime,
                                      ![sid].auto_clocked_out = TRUE,
                                      ![sid].auto_clockout_type = "geofence",
                                      ![sid].total_hours = totalHours,
                                      ![sid].geofence_exit_data = GeofenceExitData(gCur[p]),
                                      ![sid].reason = "left job site"]
                ELSE sessions
          /\ updates' = updates \cup
                {Update(p, "grace", sid, gCur[p].id, hit, clockOutTime,
                        "site", totalHours, NULL)}
    /\ gFacts' = [gFacts EXCEPT ![p].updated = TRUE]
    /\ gpc' = [gpc EXCEPT ![p] = "ins_confirmed"]
    /\ UNCHANGED <<now, envVars, events, notifs, nextId, trackVars,
                   gNow, gExits, gCur, gFix, gEntry, monVars>>

\* A datastore call that fails returns an error and no data.  Where the loop
\* goes after the failed read of the clock entry or the failed update: continue.
GraceOnError_Abort == "idle"
GraceOnError_Confirm == "ins_confirmed"
GraceOnError == "loop"

\* 3. the read of the clock entry fails: no clockEntry
GReadEntryFails(p) ==
    /\ faults > 0
    /\ gpc[p] = "read_entry"
    /\ faults' = faults - 1
    /\ gFacts' = [gFacts EXCEPT ![p].failed = @ \cup {gCur[p].id}]
    /\ gpc' = [gpc EXCEPT ![p] = GraceOnError]
    /\ UNCHANGED <<now, cfgVars, fnCall, dlg, dbVars, trackVars,
                   gNow, gExits, gCur, gFix, gEntry, updates, monVars>>

\* 4. the update fails: updateError, nothing is written
GUpdateFails(p) ==
    /\ faults > 0
    /\ gpc[p] = "update"
    /\ faults' = faults - 1
    /\ gFacts' = [gFacts EXCEPT ![p].failed = @ \cup {gCur[p].id}]
    /\ updates' = updates \cup
          {Update(p, "grace_failed", gCur[p].sid, gCur[p].id, FALSE, NULL,
                  "site", NULL, NULL)}
    /\ gpc' = [gpc EXCEPT ![p] = GraceOnError]
    /\ UNCHANGED <<now, cfgVars, fnCall, dlg, dbVars, trackVars,
                   gNow, gExits, gCur, gFix, gEntry, monVars>>

GraceFails(p) ==
    \/ GReadEntryFails(p)
    \/ GUpdateFails(p)

\* 5. record exit_confirmed
GInsertConfirmed(p) ==
    /\ gpc[p] = "ins_confirmed"
    /\ InsertEvent(EventRow(nextId, gCur[p].sid, "exit_confirmed", gCur[p].ts,
                            gCur[p].dist, gCur[p].acc, gCur[p].radius, gCur[p].thr))
    /\ gpc' = [gpc EXCEPT ![p] = "del_exit"]
    /\ UNCHANGED <<now, envVars, sessions, notifs, trackVars,
                   gNow, gExits, gCur, gFix, gEntry, gFacts, updates, monVars>>

GDeleteExit(p) ==
    /\ gpc[p] = "del_exit"
    /\ events' = DeleteById(events, gCur[p].id)
    /\ gpc' = [gpc EXCEPT ![p] = "notify"]
    /\ UNCHANGED <<now, envVars, sessions, notifs, nextId, trackVars,
                   gNow, gExits, gCur, gFix, gEntry, gFacts, updates, monVars>>

\* 6. the notification: worker:date:auto_clockout_geofence
GraceDedupeKey(exit) == <<exit.wid, DateOf(exit.ts), "auto_clockout_geofence">>

GNotify(p) ==
    /\ gpc[p] = "notify"
    /\ notifs' = Append(notifs, Notification(gCur[p].wid, "geofence_auto_clockout",
                                             GraceDedupeKey(gCur[p]), now))
    /\ gpc' = [gpc EXCEPT ![p] = "loop"]
    /\ UNCHANGED <<now, envVars, sessions, events, nextId, trackVars,
                   gNow, gExits, gCur, gFix, gEntry, gFacts, updates, monVars>>

\* 6. the insert of the notification fails: its result is not looked at and the
\* loop goes on with the next row
GraceNotifyOnError_Abort == "idle"
GraceNotifyOnError == "loop"

GNotifyFails(p) ==
    /\ faults > 0
    /\ gpc[p] = "notify"
    /\ faults' = faults - 1
    /\ gpc' = [gpc EXCEPT ![p] = GraceNotifyOnError]
    /\ UNCHANGED <<now, cfgVars, fnCall, dlg, dbVars, trackVars,
                   gNow, gExits, gCur, gFix, gEntry, gFacts, updates, monVars>>

\* the loop is over: the response
GReturn(p) ==
    /\ gpc[p] = "loop"
    /\ gExits[p] = {}
    /\ gpc' = [gpc EXCEPT ![p] = "idle"]
    /\ gCur' = [gCur EXCEPT ![p] = NoRow]
    /\ gFix' = [gFix EXCEPT ![p] = NoRow]
    /\ gEntry' = [gEntry EXCEPT ![p] = NoEntry]
    /\ gFacts' = [gFacts EXCEPT ![p] = NoFacts]
    /\ UNCHANGED <<now, envVars, dbVars, trackVars, gNow, gExits, updates, monVars>>

Grace(p) ==
    \/ GStart(p)
    \/ GSelect(p)
    \/ GCheckExisting(p)
    \/ GDeleteHandled(p)
    \/ GReadFixes(p)
    \/ GInsertReentry(p)
    \/ GDeleteReentry(p)
    \/ GReadEntry(p)
    \/ GUpdate(p)
    \/ GInsertConfirmed(p)
    \/ GDeleteExit(p)
    \/ GNotify(p)
    \/ GReturn(p)

\* ------------------------------------------------------ overtime sweeps
\* The overtime sweep exists in five implementations: "ccs" check-clock-status,
\* "p1" its overtime-only variant, "ota" check-ot-autoclockout, "p2" its variant
\* without a grace period, "ge2" the handler in the second half of
\* check-grace-expiry/index.ts.  An invocation runs one of them.
Impls == {"ccs", "p1", "ota", "p2", "ge2"}

\* nowInTz: Sun = 0 .. Sat = 6
DayOfWeek(t) == (dowShift + DateOf(t)) % 7
Weekend(t) == DayOfWeek(t) = 0 \/ DayOfWeek(t) = 6
SkipsWeekend(impl) == impl \in {"ccs", "p1"}

\* every worker is active and has the day among the shift_days
getWorkersForAutoClockout(t) ==
    {w \in Workers : /\ MinuteOfDay(t) >= ShiftEndOf[w] + 30
                     /\ MinuteOfDay(t) <= ShiftEndOf[w] + 40}

\* the worker's latest entry clocked in on the date, or "none"
getTodayEntry(w, date) ==
    LET todays == {s \in Sessions : /\ sessions[s].worker_id = w
                                    /\ DateOf(sessions[s].clock_in) = date}
    IN IF todays = {} THEN "none"
       ELSE CHOOSE s \in todays :
               \A o \in todays : sessions[o].clock_in <= sessions[s].clock_in

\* the worker has an open overtime entry
getActiveOTEntries(w) ==
    \E s \in Sessions : /\ sessions[s].worker_id = w
                        /\ sessions[s].is_overtime
                        /\ sessions[s].clock_out = NULL

\* the open overtime entries an implementation selects
ActiveOTs(impl) ==
    {s \in Sessions : /\ sessions[s].is_overtime
                      /\ sessions[s].clock_out = NULL
                      /\ (impl = "ccs" => ~sessions[s].auto_clocked_out)}

UnresolvedExits(evs, sid) ==
    {e \in evs : e.sid = sid /\ e.type = "exit_detected" /\ e.resolved_at = NULL}

\* exits[exits.length - 1] of the rows ordered by timestamp, descending
EarliestTs(exits) ==
    CHOOSE t \in {e.ts : e \in exits} : \A e \in exits : t <= e.ts

\* the exit check with the grace period (ccs, p1, ota)
GraceExitDue(exits, t) ==
    /\ exits # {}
    /\ t - EarliestTs(exits) >= GRACE_PERIOD_MINUTES

\* the exit check by maybeSingle(): data only when exactly one row matches (p2, ge2)
SingleExitDue(exits) == Cardinality(exits) = 1

ExitDue(impl, exits, t) ==
    IF impl \in {"p2", "ge2"} THEN SingleExitDue(exits) ELSE GraceExitDue(exits, t)

\* hrs >= 3 && hrs <= 3.167, or hrs > 3.167 (ccs); hrs > 3 (p1); hoursWorked >= 3
LimitReached(impl, hrs) ==
    CASE impl = "ccs" ->
            \/ (hrs >= MAX_OT_HOURS * HOUR /\ 1000 * hrs <= 3167 * HOUR)
            \/ 1000 * hrs > 3167 * HOUR
      [] impl = "p1" -> hrs > MAX_OT_HOURS * HOUR
      [] OTHER -> hrs >= MAX_OT_HOURS * HOUR

\* autoClockOutOT of check-clock-status: forcedHours ?? max(0, actual), capped at 3
cappedHrs_Uncapped(forcedHours, actualHrs) ==
    IF forcedHours # NULL THEN forcedHours ELSE Max2(0, actualHrs)
cappedHrs(forcedHours, actualHrs) ==
    LET totalHrs == IF forcedHours # NULL THEN forcedHours ELSE Max2(0, actualHrs)
    IN IF totalHrs > MAX_OT_HOURS * HOUR THEN MAX_OT_HOURS * HOUR ELSE totalHrs

\* total_hours an implementation records
TotalHours(impl, cause, hrs, actualHrs) ==
    CASE impl = "ccs" ->
            cappedHrs(IF cause = "site" THEN hrs ELSE MAX_OT_HOURS * HOUR, actualHrs)
      [] impl = "p1" -> Max2(0, actualHrs)
      [] OTHER -> actualHrs

\* auto_clockout_type an implementation records (ota, p2, ge2 leave the column)
ClockoutType(impl, cause, old) ==
    CASE impl = "ccs" -> IF cause = "site" THEN "geofence_based" ELSE "time_based"
      [] impl = "p1" -> IF cause = "site" THEN "geofence_based" ELSE "ot_time_based"
      [] OTHER -> old

\* sendNotification: `${id}:${date}:${type}`
DedupeKey(w, date, type) == <<w, date, type>>
\* autoClockOut: `ot_auto_${entry.id}_${clockOutTime}`
OTDedupeKey(sid, clockOutTime) == <<"ot_auto", sid, clockOutTime>>

DueSessions(t) ==
    {s \in Sessions : /\ sessions[s].is_overtime
                      /\ sessions[s].clock_out = NULL
                      /\ t - sessions[s].clock_in >= MAX_OT_HOURS * HOUR}

\* the invocation starts: the weekend return, then the workers of the shift-end
\* auto clock-out (ccs); the reminders touch no clock entry
MStart(p, impl) ==
    /\ mpc[p] \in {"idle", "done"}
    /\ mImpl' = [mImpl EXCEPT ![p] = impl]
    /\ mFacts' = [mFacts EXCEPT ![p] = [due |-> DueSessions(now), failed |-> {}]]
    /\ mCur' = [mCur EXCEPT ![p] = NoCur]
    /\ IF SkipsWeekend(impl) /\ Weekend(now)
       THEN /\ mpc' = [mpc EXCEPT ![p] = "done"]
            /\ UNCHANGED <<mNow, mWorkers>>
       ELSE /\ mNow' = [mNow EXCEPT ![p] = now]
            /\ mWorkers' = [mWorkers EXCEPT ![p] =
                  IF impl = "ccs" THEN getWorkersForAutoClockout(now) ELSE {}]
            /\ mpc' = [mpc EXCEPT ![p] =
                  IF impl = "ccs" /\ getWorkersForAutoClockout(now) # {}
                  THEN "shift_read" ELSE "select"]
    /\ UNCHANGED <<now, envVars, dbVars, trackVars, graceVars, updates,
                   mRows, mNote>>

\* handleAutoClockOut: the next worker, getTodayEntry and getActiveOTEntries
MShiftRead(p) ==
    /\ mpc[p] = "shift_read"
    /\ IF mWorkers[p] = {}
       THEN /\ mpc' = [mpc EXCEPT ![p] = "select"]
            /\ UNCHANGED <<mWorkers, mCur>>
       ELSE \E w \in mWorkers[p] :
            LET latestEntry == getTodayEntry(w, DateOf(mNow[p])) IN
            /\ mWorkers' = [mWorkers EXCEPT ![p] = @ \ {w}]
            /\ IF \/ latestEntry = "none"
                  \/ sessions[latestEntry].clock_out # NULL
                  \/ getActiveOTEntries(w)
               THEN UNCHANGED <<mpc, mCur>>
               ELSE /\ mpc' = [mpc EXCEPT ![p] = "shift_update"]
                    /\ mCur' = [mCur EXCEPT ![p] =
                          [sid |-> latestEntry, wid |-> w,
                           clock_in |-> sessions[latestEntry].clock_in]]
    /\ UNCHANGED <<now, envVars, dbVars, trackVars, graceVars, updates,
                   mImpl, mNow, mRows, mNote, mFacts>>

\* handleAutoClockOut: the update, 30 minutes after the shift end, .eq("id") only
MShiftUpdate(p) ==
    /\ mpc[p] = "shift_update"
    /\ LET sid == mCur[p].sid
           clockOut == DateOf(mNow[p]) * DAY + ShiftEndOf[mCur[p].wid] + 30
           totalHrs == Max2(0, clockOut - mCur[p].clock_in)
       IN /\ sessions' = [sessions EXCEPT ![sid].clock_out = clockOut,
                                          ![sid].auto_clocked_out = TRUE,
                                          ![sid].auto_clockout_type = "time_based",
                                          ![sid].total_hours = totalHrs,
                                          ![sid].reason = "shift end"]
          /\ updates' = updates \cup
                {Update(p, "shift", sid, 0, TRUE, clockOut, "shift end", totalHrs, NULL)}
    /\ mNote' = [mNote EXCEPT ![p] =
          [type |-> "auto_clockout_time", wid |-> mCur[p].wid, back |-> "shift_read"]]
    /\ mpc' = [mpc EXCEPT ![p] = "n_select"]
    /\ UNCHANGED <<now, envVars, events, notifs, nextId, trackVars, graceVars,
                   mImpl, mNow, mWorkers, mRows, mCur, mFacts>>

\* sendNotification: the select by dedupe_key ...
MNotifySelect(p) ==
    /\ mpc[p] = "n_select"
    /\ LET key == DedupeKey(mNote[p].wid, DateOf(mNow[p]), mNote[p].type) IN
       IF \E i \in 1..Len(notifs) : notifs[i].dedupe_key = key
       THEN /\ mpc' = [mpc EXCEPT ![p] = mNote[p].back]
            /\ mNote' = [mNote EXCEPT ![p] = NoNote]
       ELSE /\ mpc' = [mpc EXCEPT ![p] = "n_insert"]
            /\ mNote' = mNote
    /\ UNCHANGED <<now, envVars, dbVars, trackVars, graceVars, updates,
                   mImpl, mNow, mWorkers, mRows, mCur, mFacts>>

\* ... and the insert
MNotifyInsert(p) ==
    /\ mpc[p] = "n_insert"
    /\ notifs' = Append(notifs,
          Notification(mNote[p].wid, mNote[p].type,
                       DedupeKey(mNote[p].wid, DateOf(mNow[p]), mNote[p].type), now))
    /\ mpc' = [mpc EXCEPT ![p] = mNote[p].back]
    /\ mNote' = [mNote EXCEPT ![p] = NoNote]
    /\ UNCHANGED <<now, envVars, sessions, events, nextId, trackVars, graceVars,
                   updates, mImpl, mNow, mWorkers, mRows, mCur, mFacts>>

\* the open overtime entries
MSelect(p) ==
    /\ mpc[p] = "select"
    /\ mRows' = [mRows EXCEPT ![p] = ActiveOTs(mImpl[p])]
    /\ mpc' = [mpc EXCEPT ![p] = IF ActiveOTs(mImpl[p]) = {} THEN "done" ELSE "row"]
    /\ mNow' = [mNow EXCEPT ![p] = IF ActiveOTs(mImpl[p]) = {} THEN 0 ELSE @]
    /\ UNCHANGED <<now, envVars, dbVars, trackVars, graceVars, updates,
                   mImpl, mWorkers, mCur, mNote, mFacts>>

\* the next entry: its unresolved exits, then the 3-hour limit.  ccs and p1 take
\* the time per entry, the others once per invocation.
MRow(p) ==
    /\ mpc[p] = "row"
    /\ \E s \in mRows[p] :
         LET impl == mImpl[p]
             t == IF impl \in {"ccs", "p1"} THEN now ELSE mNow[p]
             hrs == t - sessions[s].clock_in
             exits == UnresolvedExits(events, s)
             cause == IF ExitDue(impl, exits, t) THEN "site"
                      ELSE IF LimitReached(impl, hrs) THEN "limit" ELSE "none"
         IN /\ mRows' = [mRows EXCEPT ![p] = @ \ {s}]
            /\ IF cause = "none"
               THEN UNCHANGED <<mpc, mCur>>
               ELSE /\ mpc' = [mpc EXCEPT ![p] = "update"]
                    /\ mCur' = [mCur EXCEPT ![p] =
                          [sid |-> s, wid |-> sessions[s].worker_id,
                           clock_in |-> sessions[s].clock_in, hrs |-> hrs,
                           cause |-> cause,
                           exitTs |-> IF exits = {} THEN NULL ELSE EarliestTs(exits),
                           at |-> NULL, changed |-> FALSE]]
    /\ UNCHANGED <<now, envVars, dbVars, trackVars, graceVars, updates,
                   mImpl, mNow, mWorkers, mNote, mFacts>>

\* autoClockOutOT / autoClockOut: the update, .eq("id") only; `changed` notes
\* whether the row it wrote was an open one
MUpdate(p) ==
    /\ mpc[p] = "update"
    /\ LET sid == mCur[p].sid
           impl == mImpl[p]
           totalHrs == TotalHours(impl, mCur[p].cause, mCur[p].hrs,
                                  now - mCur[p].clock_in)
       IN /\ sessions' = [sessions EXCEPT
                ![sid].clock_out = now,
                ![sid].auto_clocked_out = TRUE,
                ![sid].auto_clockout_type = ClockoutType(impl, mCur[p].cause, @),
                ![sid].total_hours = totalHrs,
                ![sid].reason = mCur[p].cause]
          /\ updates' = updates \cup
                {Update(p, impl, sid, 0, TRUE, now, mCur[p].cause, totalHrs,
                        IF mCur[p].exitTs = NULL THEN NULL ELSE now - mCur[p].exitTs)}
    /\ mCur' = [mCur EXCEPT ![p].at = now,
                             ![p].changed = sessions[mCur[p].sid].clock_out = NULL]
    /\ mpc' = [mpc EXCEPT ![p] = "resolve"]
    /\ UNCHANGED <<now, envVars, events, notifs, nextId, trackVars, graceVars,
                   mImpl, mNow, mWorkers, mRows, mNote, mFacts>>

\* the update fails: ccs does not look at the result and goes on, the others
\* return from autoClockOutOT / autoClockOut on updateError
MonitorOnError(impl) == IF impl = "ccs" THEN "resolve" ELSE "row"

MUpdateFails(p) ==
    /\ faults > 0
    /\ mpc[p] = "update"
    /\ faults' = faults - 1
    /\ mFacts' = [mFacts EXCEPT ![p].failed = @ \cup {mCur[p].sid}]
    /\ mCur' = [mCur EXCEPT ![p].at = now]
    /\ mpc' = [mpc EXCEPT ![p] = MonitorOnError(mImpl[p])]
    /\ UNCHANGED <<now, cfgVars, fnCall, dlg, dbVars, trackVars, graceVars, updates,
                   mImpl, mNow, mWorkers, mRows, mNote>>

\* the unresolved exit_detected rows of the entry are marked resolved
MResolve(p) ==
    /\ mpc[p] = "resolve"
    /\ events' = {IF e \in UnresolvedExits(events, mCur[p].sid)
                  THEN [e EXCEPT !.resolved_at = mCur[p].at] ELSE e : e \in events}
    /\ IF mImpl[p] \in {"ccs", "p1"}
       THEN /\ mpc' = [mpc EXCEPT ![p] = "n_select"]
            /\ mNote' = [mNote EXCEPT ![p] =
                  [type |-> "ot_auto_clockout", wid |-> mCur[p].wid, back |-> "row"]]
       ELSE /\ mpc' = [mpc EXCEPT ![p] = "n_plain"]
            /\ mNote' = mNote
    /\ UNCHANGED <<now, envVars, sessions, notifs, nextId, trackVars, graceVars,
                   updates, mImpl, mNow, mWorkers, mRows, mCur, mFacts>>

\* autoClockOut of ota, p2, ge2: the notification is inserted outright
MNotifyPlain(p) ==
    /\ mpc[p] = "n_plain"
    /\ notifs' = Append(notifs,
          Notification(mCur[p].wid, "overtime_auto_clockout",
                       OTDedupeKey(mCur[p].sid, mCur[p].at), mCur[p].at))
    /\ mpc' = [mpc EXCEPT ![p] = "row"]
    /\ UNCHANGED <<now, envVars, sessions, events, nextId, trackVars, graceVars,
                   updates, mImpl, mNow, mWorkers, mRows, mCur, mNote, mFacts>>

\* the insert of the notification fails: sendNotification and autoClockOut do
\* not look at its result, the sweep goes on as after an insert
MNotifyFails(p) ==
    /\ faults > 0
    /\ mpc[p] \in {"n_insert", "n_plain"}
    /\ faults' = faults - 1
    /\ mpc' = [mpc EXCEPT ![p] = IF mpc[p] = "n_insert" THEN mNote[p].back ELSE "row"]
    /\ mNote' = [mNote EXCEPT ![p] = IF mpc[p] = "n_insert" THEN NoNote ELSE @]
    /\ UNCHANGED <<now, cfgVars, fnCall, dlg, dbVars, trackVars, graceVars, updates,
                   mImpl, mNow, mWorkers, mRows, mCur, mFacts>>

\* the loop is over: the response
MReturn(p) ==
    /\ mpc[p] = "row"
    /\ mRows[p] = {}
    /\ mpc' = [mpc EXCEPT ![p] = "done"]
    /\ mNow' = [mNow EXCEPT ![p] = 0]
    /\ mCur' = [mCur EXCEPT ![p] = NoCur]
    /\ UNCHANGED <<now, envVars, dbVars, trackVars, graceVars, updates,
                   mImpl, mWorkers, mRows, mNote, mFacts>>

Monitor(p, impls) ==
    \/ \E impl \in impls : MStart(p, impl)
    \/ MShiftRead(p)
    \/ MShiftUpdate(p)
    \/ MNotifySelect(p)
    \/ MNotifyInsert(p)
    \/ MSelect(p)
    \/ MRow(p)
    \/ MUpdate(p)
    \/ MResolve(p)
    \/ MNotifyPlain(p)
    \/ MReturn(p)

\* the clock, the user and the mobile client
Env(tracked, accs, ages, observed, steps, last) ==
    \/ Tick(steps, last)
    \/ \E s \in tracked : ManualClockOut(s)
    \/ Track(tracked, accs, ages, observed)

\* overlapping invocations of check-grace-expiry
Next ==
    \/ Env({"s1"}, {10}, {0}, FALSE, {6}, MaxTime)
    \/ \E p \in GraceProcs : Grace(p)

Spec == Init /\ [][Next]_vars

\* one invocation of check-grace-expiry at a time
NextSeq ==
    \/ Env({"s1"}, SampleAccs, {0}, FALSE, {5, 6}, MaxTime)
    \/ Grace("g1")

SpecSeq == InitSeq /\ [][NextSeq]_vars

\* the sweeps with a datastore call that fails: s1 a regular session at 19:20, or
\* at 20:00 s1 and s2 both overtime sessions past the limit, or s1 regular
InitFault ==
    \/ InitWith(1160, {690}, {FALSE}, {1140}, {1}, MaxFaultSamples,
                {Job(TRUE, RadiusOf["s1"], TRUE)}, {ShiftEndText(ShiftEndOf["w1"])},
                MaxFaults, {NoCall})
    \/ InitWith(1200, {990}, {TRUE, FALSE}, {1020}, {1}, MaxFaultSamples,
                {Job(TRUE, RadiusOf["s1"], TRUE)}, {ShiftEndText(ShiftEndOf["w1"])},
                MaxFaults, {NoCall})

NextFault ==
    \/ Env({"s1"}, {10}, {0}, FALSE, {6}, MaxTimeFault)
    \/ Grace("g1")
    \/ GraceFails("g1")
    \/ Monitor("m1", {"ccs", "p1", "ota"})
    \/ MUpdateFails("m1")

SpecFault == InitFault /\ [][NextFault]_vars

\* The sweeps with notifications that are not stored: every other call succeeds.
NextNotify ==
    \/ Env({"s1"}, {10}, {0}, FALSE, {6}, MaxTimeFault)
    \/ Grace("g1")
    \/ Monitor("m1", {"ccs", "p1", "ota"})
    \/ GNotifyFails("g1")
    \/ MNotifyFails("m1")

SpecNotify == InitFault /\ [][NextNotify]_vars

\* ------------------------------------------------ RAMS acceptance dialog
bothSectionsViewed(d) == d.rams /\ d.site

DialogStep(d) ==
    /\ dlg' = d
    /\ UNCHANGED <<now, cfgVars, faults, fnCall, dbVars, trackVars, graceVars,
                   updates, monVars>>

\* the parent shows the dialog: the open prop becomes true
ParentOpens ==
    /\ ~dlg.open
    /\ DialogStep([dlg EXCEPT !.open = TRUE, !.seenRams = FALSE, !.seenSite = FALSE,
                              !.accepted = FALSE])

\* the parent sets or clears the loading prop
ParentLoading ==
    /\ dlg.open
    /\ DialogStep([dlg EXCEPT !.loading = ~@])

\* the parent hides the dialog once onAccept has been called: the open prop
\* becomes false, the content with its accordion is unmounted
ParentCloses ==
    /\ dlg.open
    /\ dlg.accepted
    /\ DialogStep([dlg EXCEPT !.open = FALSE, !.loading = FALSE, !.expanded = ""])

\* the user opens a section, or collapses the open one (value "")
handleAccordionChange(value) ==
    /\ dlg.open
    /\ value # dlg.expanded
    /\ DialogStep([dlg EXCEPT
          !.expanded = value,
          !.rams = @ \/ value = "rams",
          !.site = @ \/ value = "site",
          !.seenRams = @ \/ value = "rams",
          !.seenSite = @ \/ value = "site"])

\* what the checkbox lets through: it is disabled until both sections were viewed
CheckboxEnabled(d) == bothSectionsViewed(d)

onCheckedChange(checked) ==
    /\ dlg.open
    /\ CheckboxEnabled(dlg)
    /\ checked # dlg.confirmed
    /\ DialogStep([dlg EXCEPT !.confirmed = checked])

\* Cancel, Escape, the overlay or the close button: the state is reset and the
\* parent, told through onOpenChange(false), hides the dialog
handleOpenChange ==
    /\ dlg.open
    /\ DialogStep([dlg EXCEPT !.open = FALSE, !.loading = FALSE, !.expanded = "",
                              !.rams = FALSE, !.site = FALSE, !.confirmed = FALSE])

\* the Accept button, enabled when confirmed, both viewed and not loading
handleAccept ==
    /\ dlg.open
    /\ dlg.confirmed /\ bothSectionsViewed(dlg) /\ ~dlg.loading
    /\ dlg.accepts < MaxAccepts
    /\ DialogStep([dlg EXCEPT
          !.accepts = @ + 1,
          !.accepted = TRUE,
          !.unseenAccept = @ \/ ~(dlg.seenRams /\ dlg.seenSite /\ dlg.confirmed)])

NextDialog ==
    \/ ParentOpens
    \/ ParentLoading
    \/ ParentCloses
    \/ \E value \in {"", "rams", "site"} : handleAccordionChange(value)
    \/ \E checked \in BOOLEAN : onCheckedChange(checked)
    \/ handleOpenChange
    \/ handleAccept

SpecDialog == InitAt(1160, {1140}, {1}, 0) /\ [][NextDialog]_vars

\* ------------------------------------------ the helpers on their own
\* the arguments of one evaluation, its result still to come
ThresholdCalls ==
    {[fn |-> "getSafeOutThreshold", radius |-> r, done |-> FALSE, threshold |-> 0] :
        r \in 1..MaxRadius}
ExitAccs == {10, 50, 51, 120}
ExitCalls ==
    {[fn |-> "reliableExit", distance |-> d, accuracy |-> a, radius |-> r,
      threshold |-> t, done |-> FALSE, exit |-> FALSE] :
        d \in 0..MaxDistance, a \in ExitAccs, r \in {50, 100},
        t \in {getSafeOutThreshold(50), getSafeOutThreshold(100), 4 * 60}}

InitFn == InitWith(1160, {690}, {FALSE}, {1140}, {1}, 0,
                   {Job(TRUE, RadiusOf["s1"], TRUE)}, {ShiftEndText(ShiftEndOf["w1"])},
                   0, ThresholdCalls \cup ExitCalls)

CallSafeOutThreshold ==
    /\ fnCall.fn = "getSafeOutThreshold"
    /\ ~fnCall.done
    /\ fnCall' = [fnCall EXCEPT !.done = TRUE,
                                !.threshold = getSafeOutThreshold(fnCall.radius)]
    /\ UNCHANGED <<now, cfgVars, faults, dlg, dbVars, trackVars, graceVars, updates, monVars>>

CallReliableExit ==
    /\ fnCall.fn = "reliableExit"
    /\ ~fnCall.done
    /\ fnCall' = [fnCall EXCEPT !.done = TRUE,
                                !.exit = reliableExit(fnCall.distance, fnCall.accuracy,
                                                      fnCall.radius, fnCall.threshold)]
    /\ UNCHANGED <<now, cfgVars, faults, dlg, dbVars, trackVars, graceVars, updates, monVars>>

NextFn ==
    \/ CallSafeOutThreshold
    \/ CallReliableExit

SpecFn == InitFn /\ [][NextFn]_vars

\* the classifier with its responses observed, and one grace sweep at a time
NextTrack ==
    \/ Env({"s1"}, {10}, SampleAges, TRUE, {6}, MaxTimeTrack)
    \/ Grace("g1")

SpecTrack == InitTrack /\ [][NextTrack]_vars

\* the second day, 19:20: samples posted at once or almost a day late, one
\* grace sweep at a time
SampleAgesStale == {0, 1435}
InitStale ==
    InitWith(DAY + 1160, {DAY + 690}, {FALSE}, {DAY + 1140}, {1}, MaxStaleSamples,
             {Job(TRUE, RadiusOf["s1"], TRUE)}, {ShiftEndText(ShiftEndOf["w1"])}, 0, {NoCall})

NextStale ==
    \/ Env({"s1"}, {10}, SampleAgesStale, FALSE, {5, 6}, MaxTimeStale)
    \/ Grace("g1")

SpecStale == InitStale /\ [][NextStale]_vars

\* 19:26 with s1 an overtime session one hour old or a regular session, or
\* 20:00 with s1 a regular session and s2 at the limit; s1 is tracked, an
\* overtime sweep and check-grace-expiry both run, one invocation of each at a
\* time
InitMixed ==
    \/ InitWith(1166, {1106}, {TRUE}, {1140}, {1}, MaxMixedSamples,
                {Job(TRUE, RadiusOf["s1"], TRUE)}, {ShiftEndText(ShiftEndOf["w1"])}, 0, {NoCall})
    \/ InitWith(1166, {690}, {FALSE}, {1140}, {1}, MaxMixedSamples,
                {Job(TRUE, RadiusOf["s1"], TRUE)}, {ShiftEndText(ShiftEndOf["w1"])}, 0, {NoCall})
    \/ InitWith(1200, {690}, {FALSE}, {1020}, {1}, MaxMixedSamples,
                {Job(TRUE, RadiusOf["s1"], TRUE)}, {ShiftEndText(ShiftEndOf["w1"])}, 0, {NoCall})

NextMixed ==
    \/ Env({"s1"}, {10}, {0}, FALSE, {3}, MaxTimeMixed)
    \/ Grace("g1")
    \/ Monitor("m1", {"ccs", "ota"})

SpecMixed == InitMixed /\ [][NextMixed]_vars

\* the classifier alone from 19:20 to 20:20: s1 an overtime session or a
\* regular one, on a fenced site or on one with the geofence off, with or
\* without coordinates, and with any shift end
InitGate ==
    InitWith(1160, {1105}, {TRUE, FALSE}, {1140}, {1}, MaxGateSamples,
             {Job(TRUE, RadiusOf["s1"], TRUE), Job(TRUE, RadiusOf["s1"], FALSE),
              Job(FALSE, RadiusOf["s1"], FALSE)},
             ShiftEndTexts, 0, {NoCall})

NextGate == Env({"s1"}, SampleAccs, SampleAges, TRUE, {30}, MaxTimeGate)

SpecGate == InitGate /\ [][NextGate]_vars

\* workers.shift_end as typed in: times of day in the 24-hour and 12-hour
\* notations, texts that are in neither notation, texts in one of them that name
\* no time of day, and a time with seconds that name no second
TimeTexts ==
    {Text(<<"1", "9", ":", "3", "0">>),
     Text(<<"1", "9", ":", "3", "0", ":", "0", "0">>),
     Text(<<"7", ":", "4", "5">>),
     Text(<<"7", ":", "3", "0", " ", "p", "m">>),
     Text(<<"7", ":", "3", "0", "P", "M">>),
     Text(<<"7", "p", "m">>),
     Text(<<"7", " ", "P", "m">>),
     Text(<<"1", "2", ":", "1", "5", " ", "a", "m">>),
     Text(<<"0", "7", ":", "3", "0", " ", "p", "M">>),
     Text(<<" ", "1", "9", ":", "3", "0", " ">>)}
MalformedTexts ==
    {Text(<<"1", "9", "3", "0">>),
     Text(<<"1", "9", ".", "3", "0">>),
     Text(<<"1", "9", ":", "3">>),
     Text(<<"1", "9", ":", "3", "0", ":", "0">>),
     Text(<<"7", ":", "3", "0", " ", "x", "m">>),
     Text(<<"p", "m">>),
     Text(<<"1", "9", ":", "3", "0", " ", "h">>),
     Text(<<"7", ":", "3", "0", " ", "p", " ", "m">>),
     Text(<<"a", "b", "c">>)}
OutOfRangeTexts ==
    {Text(<<"2", "5", ":", "0", "0">>),
     Text(<<"1", "9", ":", "6", "0">>),
     Text(<<"1", "3", ":", "0", "0", " ", "p", "m">>),
     Text(<<"0", " ", "p", "m">>),
     Text(<<"7", ":", "7", "5", " ", "p", "m">>)}
OddSecondsTexts == {Text(<<"1", "9", ":", "3", "0", ":", "9", "9">>)}
EmptyTexts == {NullText, Text(<<>>), Text(<<" ", " ">>)}

InitShiftEnd ==
    InitWith(1160, {1105}, {FALSE}, {1140}, {1}, MaxShiftEndSamples,
             {Job(TRUE, RadiusOf["s1"], TRUE)},
             TimeTexts \cup MalformedTexts \cup OutOfRangeTexts \cup OddSecondsTexts
                \cup EmptyTexts,
             0, {NoCall})

NextShiftEnd == Env({"s1"}, {10}, {0}, TRUE, {6}, MaxTimeShiftEnd)

SpecShiftEnd == InitShiftEnd /\ [][NextShiftEnd]_vars

\* sites whose radius puts the samples (40 m and 130 m from the centre) inside
\* the fence, on its edge, between the edge and the threshold, and beyond
FenceRadii == {1, 15, 39, 40, 41, 50, 100, 104, 105, 106, 129, 130, 131, 200}

InitRadius ==
    InitWith(1160, {1105}, {FALSE}, {1140}, {1}, MaxRadiusSamples,
             {Job(TRUE, r, TRUE) : r \in FenceRadii},
             {ShiftEndText(ShiftEndOf["w1"])}, 0, {NoCall})

NextRadius == Env({"s1"}, SampleAccs, {0}, FALSE, {6}, MaxTimeRadius)

SpecRadius == InitRadius /\ [][NextRadius]_vars

\* payloads that name the session of w1, with the id of w1 or of w2, or a clock
\* entry that does not exist; the site of s1 is any of the sites
PayloadSessions == {"s1", "s0"}

InitPayload ==
    InitWith(1160, {1105}, {FALSE}, {1140}, {1}, MaxPayloadSamples,
             SiteJobs, {ShiftEndText(ShiftEndOf["w1"])}, 0, {NoCall})

NextPayload ==
    \/ Tick({6}, MaxTimePayload)
    \/ ManualClockOut("s1")
    \/ \E sid \in PayloadSessions, wid \in Workers, dist \in SampleDists :
          TrackStartPayload(sid, wid, dist, 10, 0, TRUE)
    \/ TrackInsertFix(TRUE)
    \/ TrackGate(TRUE)
    \/ TrackInsertExit(TRUE)

SpecPayload == InitPayload /\ [][NextPayload]_vars

\* ------------------------------------------------ approval of overtime
\* s1 is the shift of w1, clocked out; s2 an overtime entry of w1, in any state
\* of approval, completion and linkage.  The call in progress, the entry as the
\* managers' lists show it, and the calls made are kept together.
Idle == [fn |-> "mergeOvertimeHours", pc |-> "idle", otEntryId |-> "none"]

InitMerge ==
    /\ InitAround(1200, {1}, 0, {Job(TRUE, RadiusOf["s1"], TRUE)},
                  {ShiftEndText(ShiftEndOf["w1"])}, 0, {NoCall})
    /\ \E mainHours \in {NULL, 480}, status \in {"pending", "approved", "rejected"},
          out \in {NULL, 1190}, link \in {"none", "s1"}, otHours \in {NULL, 0, 90} :
         sessions = [s \in Sessions |->
            IF s = "s1"
            THEN [OpenSession("w1", 540, FALSE) EXCEPT
                     !.clock_out = 1020, !.total_hours = mainHours]
            ELSE [OpenSession("w1", 1100, TRUE) EXCEPT
                     !.clock_out = out, !.total_hours = otHours,
                     !.ot_status = status, !.linked_shift_id = link]]

\* the call in progress
mergeCall == IF "pc" \in DOMAIN fnCall THEN fnCall ELSE Idle

MergeStep(call) ==
    /\ fnCall' = call
    /\ UNCHANGED <<now, cfgVars, faults, dlg, events, nextId, trackVars, graceVars,
                   updates, monVars>>

\* NotificationService.sendDualNotification: a notification of the worker
sendDualNotification(w, type, key) ==
    notifs' = Append(notifs, Notification(w, type, key, now))

\* mergeOvertimeHours: the conditions under which nothing is merged
NotReady(otEntry) ==
    \/ otEntry.ot_status # "approved"
    \/ otEntry.clock_out = NULL
    \/ otEntry.linked_shift_id = "none"
    \/ otEntry.total_hours = NULL \/ otEntry.total_hours = 0

Approvals(call) == IF "approvals" \in DOMAIN call THEN call.approvals ELSE 0
Calls(call) == IF "calls" \in DOMAIN call THEN call.calls ELSE 0
Merged(call) == IF "merged" \in DOMAIN call THEN call.merged ELSE 0

\* handleApprove(entry) of a manager whose list shows the entry as pending (it
\* was pending when the list was fetched, another manager may have approved it
\* since): the update, the notification, and mergeOvertimeHours for a completed
\* entry
handleApprove(sid) ==
    /\ mergeCall.pc = "idle"
    /\ Approvals(mergeCall) < MaxApprovals
    /\ sessions[sid].is_overtime
    /\ sessions[sid].ot_status = "pending" \/ Approvals(mergeCall) > 0
    /\ sessions' = [sessions EXCEPT ![sid].ot_status = "approved"]
    /\ sendDualNotification(sessions[sid].worker_id, "overtime_approved",
                            <<"ot_approved", sid>>)
    /\ MergeStep([fn |-> "mergeOvertimeHours",
                  pc |-> IF sessions[sid].clock_out # NULL
                            /\ sessions[sid].total_hours \notin {NULL, 0}
                         THEN "read_entry" ELSE "idle",
                  otEntryId |-> sid,
                  approvals |-> Approvals(mergeCall) + 1,
                  calls |-> Calls(mergeCall),
                  merged |-> Merged(mergeCall),
                  returned |-> "none"])

\* mergeOvertimeHours(otEntryId) called on its own
CallMerge(sid) ==
    /\ mergeCall.pc = "idle"
    /\ Calls(mergeCall) < MaxMergeCalls
    /\ MergeStep([fn |-> "mergeOvertimeHours", pc |-> "read_entry", otEntryId |-> sid,
                  approvals |-> Approvals(mergeCall),
                  calls |-> Calls(mergeCall) + 1,
                  merged |-> Merged(mergeCall),
                  returned |-> "none"])
    /\ UNCHANGED <<sessions, notifs>>

\* the read of the overtime entry and the test of its readiness
MergeReadEntry ==
    /\ mergeCall.pc = "read_entry"
    /\ LET otEntry == sessions[mergeCall.otEntryId] IN
       IF NotReady(otEntry)
       THEN MergeStep([mergeCall EXCEPT !.pc = "idle", !.returned = "false"])
       ELSE MergeStep([otTotal |-> otEntry.total_hours,
                       linked |-> otEntry.linked_shift_id,
                       mainTotal |-> NULL] @@ [mergeCall EXCEPT !.pc = "read_shift"])
    /\ UNCHANGED <<sessions, notifs>>

\* the read of the main shift
MergeReadShift ==
    /\ mergeCall.pc = "read_shift"
    /\ MergeStep([mergeCall EXCEPT !.pc = "update",
                                   !.mainTotal = sessions[mergeCall.linked].total_hours])
    /\ UNCHANGED <<sessions, notifs>>

\* (mainShift.total_hours || 0) + otEntry.total_hours
newTotalHours(call) ==
    (IF call.mainTotal = NULL THEN 0 ELSE call.mainTotal) + call.otTotal

\* the update of the main shift, and true
MergeUpdate ==
    /\ mergeCall.pc = "update"
    /\ sessions' = [sessions EXCEPT
          ![mergeCall.linked].total_hours = newTotalHours(mergeCall)]
    /\ MergeStep([fn |-> "mergeOvertimeHours", pc |-> "idle",
                  otEntryId |-> mergeCall.otEntryId,
                  approvals |-> mergeCall.approvals,
                  calls |-> mergeCall.calls,
                  merged |-> mergeCall.merged + 1,
                  returned |-> "true"])
    /\ UNCHANGED notifs

NextMerge ==
    \/ handleApprove("s2")
    \/ CallMerge("s2")
    \/ MergeReadEntry
    \/ MergeReadShift
    \/ MergeUpdate

SpecMerge == InitMerge /\ [][NextMerge]_vars

\* one invocation of an overtime sweep at a time, of any implementation
NextOT ==
    \/ Env({"s2"}, {10}, {0}, FALSE, {3, 5}, MaxTimeOT)
    \/ Monitor("m1", Impls)

SpecOT == InitOT /\ [][NextOT]_vars

\* check-clock-status and check-ot-autoclockout, one invocation at a time
NextCap ==
    \/ Env({"s2"}, {10}, {0}, FALSE, {5}, MaxTimeOT)
    \/ Monitor("m1", {"ccs", "ota"})

SpecCap == InitOT /\ [][NextCap]_vars

\* overlapping invocations of check-clock-status and check-ot-autoclockout
NextOTRace ==
    \/ Tick({5}, MaxTimeOT)
    \/ \E p \in MonProcs : Monitor(p, {"ccs", "ota"})

SpecOTRace == InitOT /\ [][NextOTRace]_vars

\* ------------------------------------------------------------ properties
EventIds == {e.id : e \in events}
RowDone(p) == gFacts[p].picked /\ gpc[p] = "loop"
GraceUpdates == {u \in updates : u.kind = "grace"}
GraceCloses(s) == Cardinality({u \in GraceUpdates : u.sid = s /\ u.matched})
GeofenceNotifs(w) ==
    Cardinality({i \in 1..Len(notifs) :
        notifs[i].worker_id = w /\ notifs[i].type = "geofence_auto_clockout"})

\* C1: when two overlapping check-grace-expiry invocations both issue their update
\* for the same exit_detected row of a regular session, the updates never both match
\* the clock entry, and exactly one matches (clock_out goes from null to the exit
\* timestamp) unless the user clocked the session out by hand first.
C1_OneUpdateTakesEffect ==
    \A u1, u2 \in GraceUpdates :
        (u1.row = u2.row /\ u1.by # u2.by) =>
            /\ ~(u1.matched /\ u2.matched)
            /\ (u1.matched \/ u2.matched \/ ManuallyClosed(sessions[u1.sid]))
            /\ u1.matched => sessions[u1.sid].clock_out = u1.wrote

C1_Witness ==
    \E u1, u2 \in GraceUpdates :
        u1.row = u2.row /\ u1.by # u2.by /\ u1.matched /\ ~u2.matched

\* C4: with one check-grace-expiry invocation at a time, a regular session is closed
\* by at most one update and gets at most one geofence notification over any number
\* of runs; a run after the one that closed it changes nothing, and the notification
\* comes with exactly one matching update unless the user clocked out by hand.
C4_SequentialRunsIdempotent ==
    \A s \in Sessions :
        ~sessions[s].is_overtime =>
            /\ GraceCloses(s) <= 1
            /\ GeofenceNotifs(sessions[s].worker_id) <= 1
            /\ (gpc["g1"] = "idle" /\ GraceCloses(s) = 1) =>
                  GeofenceNotifs(sessions[s].worker_id) = 1
            /\ GeofenceNotifs(sessions[s].worker_id) = 1 =>
                  (GraceCloses(s) = 1 \/ ManuallyClosed(sessions[s]))

\* a second run has started after the run that closed and notified
C4_Witness ==
    /\ GraceCloses("s1") = 1
    /\ GeofenceNotifs("w1") = 1
    /\ gpc["g1"] = "select"

\* C6 (as claimed): whenever a sweep has processed an exit_detected row at T1 of a
\* regular session that was open, with no inside location_fix after T1 and no manual
\* clock-out, the session is closed with clock_out = T1 and total_hours = T1 - T0.
C6_RoundTripClaim ==
    \A p \in GraceProcs :
        (/\ RowDone(p)
         /\ ~sessions[gCur[p].sid].is_overtime
         /\ gFacts[p].open
         /\ ~BackInsideFixExists(gCur[p])
         /\ ~ManuallyClosed(sessions[gCur[p].sid])) =>
            /\ sessions[gCur[p].sid].clock_out = gCur[p].ts
            /\ sessions[gCur[p].sid].total_hours =
                  gCur[p].ts - sessions[gCur[p].sid].clock_in

\* C7 (as claimed): a row with an inside, accurate location_fix after its timestamp
\* is never finalized, gets a re_entry event written and is deleted.
C7_ReentryClaim ==
    \A p \in GraceProcs :
        (RowDone(p) /\ gFacts[p].insideFix) =>
            /\ gFacts[p].reentry
            /\ ~gFacts[p].updated
            /\ gCur[p].id \notin EventIds

\* C7 (amended): the same, for a row picked while no re_entry or exit_confirmed
\* event of its session exists; when one exists the row is deleted without a new
\* event and without an update.
C7_ReentryCancels ==
    \A p \in GraceProcs :
        (RowDone(p) /\ gFacts[p].insideFix) =>
            /\ ~gFacts[p].updated
            /\ gCur[p].id \notin EventIds
            /\ gFacts[p].reentry = ~gFacts[p].handled
            /\ gFacts[p].reentry =>
                  \E e \in events : e.type = "re_entry" /\ e.sid = gCur[p].sid

C7_Witness ==
    \E p \in GraceProcs :
        /\ RowDone(p) /\ gFacts[p].insideFix /\ gFacts[p].reentry
        /\ sessions[gCur[p].sid].clock_out = NULL

\* C2: once a session's clock_out is non-null, no later update of a sweep (the
\* grace sweep, the overtime sweep and the shift-end auto clock-out of
\* check-clock-status) changes its clock_out, total_hours or auto_clockout_type.
C2_ClosedOnce ==
    [][\A u \in updates' \ updates :
          (u.kind \in {"grace", "shift", "ccs"} /\ sessions[u.sid].clock_out # NULL) =>
             /\ sessions'[u.sid].clock_out = sessions[u.sid].clock_out
             /\ sessions'[u.sid].total_hours = sessions[u.sid].total_hours
             /\ sessions'[u.sid].auto_clockout_type =
                   sessions[u.sid].auto_clockout_type]_vars

\* C3: no update of the grace sweep or of the overtime sweep of check-clock-status
\* changes clock_out, total_hours or auto_clocked_out of a session the user clocked
\* out by hand, also when the clock-out fell between the sweep's read and its write.
C3_ManualWins ==
    [][\A u \in updates' \ updates :
          (u.kind \in {"grace", "ccs"} /\ ManuallyClosed(sessions[u.sid])) =>
             /\ sessions'[u.sid].clock_out = sessions[u.sid].clock_out
             /\ sessions'[u.sid].total_hours = sessions[u.sid].total_hours
             /\ sessions'[u.sid].auto_clocked_out =
                   sessions[u.sid].auto_clocked_out]_vars

\* the third component of a dedupe key: one tag per notification type
DedupeTags == {"auto_clockout_geofence", "auto_clockout_time", "ot_auto_clockout"}

\* C5: no two auto clock-out notifications share worker, date and type, and every
\* dedupe key is made of the worker, a date and the tag of the type, nothing else.
C5_NoDoubleNotify ==
    /\ \A i, j \in 1..Len(notifs) :
          (/\ i # j
           /\ notifs[i].worker_id = notifs[j].worker_id
           /\ notifs[i].type = notifs[j].type) =>
              DateOf(notifs[i].created_at) # DateOf(notifs[j].created_at)
    /\ \A i \in 1..Len(notifs) :
          /\ notifs[i].dedupe_key[1] = notifs[i].worker_id
          /\ notifs[i].dedupe_key[2] = DateOf(notifs[i].created_at)
          /\ notifs[i].dedupe_key[3] \in DedupeTags

\* C8: every overtime sweep update issued because the 3-hour limit was reached
\* records total_hours = 3, whichever implementation issued it.
C8_OvertimeCap ==
    \A u \in updates :
        (u.kind \in Impls /\ u.cause = "limit") => u.total = MAX_OT_HOURS * HOUR

\* C9: when an invocation of check-clock-status has completed, every overtime
\* session that was open with 3 hours or more elapsed when it started is closed.
C9_CapIsTimeout ==
    \A p \in MonProcs :
        (mpc[p] = "done" /\ mImpl[p] = "ccs") =>
            \A s \in mFacts[p].due : sessions[s].clock_out # NULL

\* C10: every overtime sweep update issued for leaving the site comes at least the
\* grace period after the earliest unresolved exit_detected event of the session.
C10_GraceBeforeExitClose ==
    \A u \in updates :
        (u.kind \in Impls /\ u.cause = "site") =>
            u.sinceExit >= GRACE_PERIOD_MINUTES

\* ------------------------------------------------ the classifier's responses
\* a request has been answered and its response is the one on display
Answered == tpc = "idle" /\ tReq # NoReq

\* the worker's shift end is stored and parses
ValidShiftEnd(w) ==
    /\ shiftEnd[w].set
    /\ trim(shiftEnd[w].text) # <<>>
    /\ parseShiftEnd(trim(shiftEnd[w].text)) # NoParse

\* the minute of the day of a valid shift end
ShiftEndMinute(w) ==
    LET parsed == parseShiftEnd(trim(shiftEnd[w].text)) IN
    parsed.hour * 60 + parsed.minute

\* the sample reached the exit test
ExitTested(req) == req.resp.status \in {"inside_fence", "exit_detected"}

\* C11: a sample of a regular session whose worker has a valid shift end E
\* reaches the exit test exactly when the time t it was taken at satisfies
\* E - 60 <= t <= E, and is answered outside_window otherwise.
C11_WindowGate ==
    /\ Answered
    /\ ~tReq.is_overtime
    /\ ValidShiftEnd(sessions[tReq.sid].worker_id)
    /\ tReq.resp.status \in {"outside_window", "inside_fence", "exit_detected"}
    => LET E == ShiftEndMinute(sessions[tReq.sid].worker_id)
           t == MinuteOfDay(tReq.ts)
       IN  ExitTested(tReq) <=> (E - AUTO_WINDOW_MINUTES <= t /\ t <= E)

\* C12: no update of check-grace-expiry changes a field of an overtime session.
C12_GraceSparesOvertime ==
    [][\A u \in updates' \ updates :
          u.kind = "grace" =>
             \A s \in Sessions : sessions[s].is_overtime => sessions'[s] = sessions[s]]_vars

\* the sweep read the open overtime entry of an expired exit and went on
C12_Witness ==
    \E p \in GraceProcs :
       /\ RowDone(p)
       /\ sessions[gCur[p].sid].is_overtime
       /\ sessions[gCur[p].sid].clock_out = NULL
       /\ ~gFacts[p].handled
       /\ ~gFacts[p].reentry

\* C13: a step of track-location leaves every clock entry (and the
\* notifications) as it was; all it does to the tables is add location_fix and
\* exit_detected rows to geofence_events.
C13_ClassifierOnlyAppendsEvents ==
    [][trackVars' # trackVars =>
          /\ sessions' = sessions
          /\ notifs' = notifs
          /\ events \subseteq events'
          /\ \A e \in events' \ events :
                e.type \in {"location_fix", "exit_detected"}]_vars

\* an exit was recorded for a session that is still open
C13_Witness ==
    /\ Answered
    /\ tReq.resp.status = "exit_detected"
    /\ sessions[tReq.sid].clock_out = NULL
    /\ \E e \in events : e.sid = tReq.sid /\ e.type = "exit_detected" /\ e.ts = tReq.ts

\* the job of a clock entry has coordinates, a radius and its geofence on
FencedSite(sid) == jobs[sid].located /\ jobs[sid].radius # 0 /\ jobs[sid].enabled

\* C14: every sample of an open session on a valid, fenced site is answered
\* with one of no_shift_end, invalid_shift_end, outside_window, inside_fence,
\* exit_detected, and whichever it is, the request has written exactly one
\* location_fix row, which carries the distance of the sample and the threshold
\* of the site.
C14_OneFixPerSample ==
    /\ Answered
    /\ FencedSite(tReq.sid)
    /\ tReq.resp.status # "not_clocked_in"
    => /\ tReq.resp.status \in {"no_shift_end", "invalid_shift_end",
                                "outside_window", "inside_fence", "exit_detected"}
       /\ tReq.fixes = 1
       /\ \E e \in events :
             /\ e.type = "location_fix"
             /\ e.sid = tReq.sid
             /\ e.ts = tReq.ts
             /\ e.acc = tReq.acc
             /\ e.dist = tReq.measured
             /\ e.thr = getSafeOutThreshold(jobs[tReq.sid].radius)

\* a sample answered no_shift_end has left its location_fix
C14_Witness ==
    /\ Answered
    /\ FencedSite(tReq.sid)
    /\ tReq.resp.status = "no_shift_end"
    /\ tReq.measured = 130
    /\ \E e \in events : e.type = "location_fix" /\ e.sid = tReq.sid /\ e.dist = 130

\* the checks of a sample in the order of the claim, each on the facts the
\* request met: the first that fails names the answer
FirstFailingCheck(req) ==
    LET job == jobs[req.sid]
        col == shiftEnd[sessions[req.sid].worker_id]
        regular == ~req.is_overtime
    IN  IF ~req.found THEN "not_clocked_in"
        ELSE IF ~job.located \/ job.radius = 0 THEN "Invalid job data"
        ELSE IF ~job.enabled THEN "geofence_disabled"
        ELSE IF regular /\ (~col.set \/ trim(col.text) = <<>>) THEN "no_shift_end"
        ELSE IF regular /\ parseShiftEnd(col.text) = NoParse THEN "invalid_shift_end"
        ELSE IF regular /\ ~LET E == ShiftEndMinute(sessions[req.sid].worker_id)
                                 t == MinuteOfDay(req.gateAt)
                             IN  E - AUTO_WINDOW_MINUTES <= t /\ t <= E
             THEN "outside_window"
        ELSE IF reliableExit(req.measured, req.acc, job.radius,
                             getSafeOutThreshold(job.radius))
             THEN "exit_detected"
        ELSE "inside_fence"

\* the name of the answer: its status, or its error when it has no status
Outcome(resp) == IF resp.status # "none" THEN resp.status ELSE resp.error

C16_SafeOutThreshold ==
    fnCall.fn = "getSafeOutThreshold" /\ fnCall.done =>
       fnCall.threshold =
          CASE fnCall.radius = 50 -> 4 * 90
            [] fnCall.radius = 100 -> 4 * 150
            [] fnCall.radius = 200 -> 4 * 260
            [] fnCall.radius = 300 -> 4 * 380
            [] fnCall.radius = 400 -> 4 * 500
            [] fnCall.radius = 500 -> 4 * 625
            [] OTHER -> 5 * fnCall.radius

\* a radius outside the table: 75 m gives 93.75 m
C16_Witness ==
    /\ fnCall.fn = "getSafeOutThreshold"
    /\ fnCall.done
    /\ fnCall.radius = 75
    /\ fnCall.threshold = 375

\* C17: with accuracy, radius and threshold fixed, once reliableExit accepts a
\* distance it accepts every larger one.
C17_ExitMonotonic ==
    fnCall.fn = "reliableExit" /\ fnCall.done /\ fnCall.exit =>
       \A d \in fnCall.distance..(2 * MaxDistance) :
          reliableExit(d, fnCall.accuracy, fnCall.radius, fnCall.threshold)

\* an exit accepted below the threshold, by the accuracy rule
C17_Witness ==
    /\ fnCall.fn = "reliableExit"
    /\ fnCall.done
    /\ fnCall.exit
    /\ 4 * fnCall.distance < fnCall.threshold

\* C18: a session the engine has clocked out has total_hours >= 0, whatever the
\* timestamp of the sample the classifier accepted and whatever its clock_in.
C18_NonNegativeHours ==
    \A s \in Sessions :
       sessions[s].auto_clocked_out => sessions[s].total_hours >= 0

\* --------------------------------------------------------- failing calls
\* C19: the failure of a datastore call for one row does not end the sweep: an
\* invocation of check-grace-expiry ends only when every expired exit it
\* selected has been taken up, and an invocation of the overtime sweep only when
\* every open overtime entry it read has been taken up.
C19_FailuresIsolated ==
    [][/\ \A p \in GraceProcs :
            gpc[p] # "idle" /\ gpc'[p] = "idle" => gExits'[p] = {}
       /\ \A p \in MonProcs :
            mpc[p] # "done" /\ mpc'[p] = "done" => mRows'[p] = {}]_vars

\* after the update failed for one expired exit, the same invocation has clocked
\* the session out on another one
C19_Witness ==
    \E p \in GraceProcs :
       /\ RowDone(p)
       /\ gFacts[p].failed # {}
       /\ gCur[p].id \notin gFacts[p].failed
       /\ gFacts[p].updated
       /\ sessions[gCur[p].sid].auto_clocked_out
       /\ \E e \in events : e.id \in gFacts[p].failed /\ e.type = "exit_detected"

\* ------------------------------------------------ RAMS acceptance dialog
\* C20: onAccept is called only when both sections have been opened since the
\* dialog was last opened and the box is checked; while the dialog is open the
\* box is not checked unless both sections have been opened since then; and a
\* closed dialog has neither section marked as viewed nor the box checked.
C20_AcceptAfterViewing ==
    /\ ~dlg.unseenAccept
    /\ dlg.open /\ dlg.confirmed => dlg.seenRams /\ dlg.seenSite
    /\ ~dlg.open => ~dlg.rams /\ ~dlg.site /\ ~dlg.confirmed

\* ------------------------------------------------ the life of a session
\* a re_entry event of the clock entry was on record by the time t
ReentryRecorded(sid, t) ==
    \E e \in events : e.sid = sid /\ e.type = "re_entry" /\ e.ts <= t

\* C21: when a sweep has processed an exit_detected row at T3 of a regular
\* session that was open and had gone back to open through a re-entry recorded
\* by T3, with no inside location_fix after T3 and no manual clock-out, the
\* session is closed with clock_out = T3.
C21_ExitAfterReentry ==
    \A p \in GraceProcs :
        (/\ RowDone(p)
         /\ ~sessions[gCur[p].sid].is_overtime
         /\ gFacts[p].open
         /\ gFacts[p].handled
         /\ ReentryRecorded(gCur[p].sid, gCur[p].ts)
         /\ ~BackInsideFixExists(gCur[p])
         /\ ~ManuallyClosed(sessions[gCur[p].sid])) =>
            sessions[gCur[p].sid].clock_out = gCur[p].ts

\* the exit_detected rows on record
ExitRows == {e \in events : e.type = "exit_detected"}

\* C22: the rows an invocation of check-grace-expiry takes up are exactly the
\* exit_detected rows more than 5 minutes and less than 24 hours old when it
\* started, and it finalizes from those only; no step of it touches a row that
\* is 5 minutes old or younger; and the rows more than 24 hours old are deleted
\* as it starts, with no clock entry, event or notification written.
C22_GraceWindow ==
    [][\A p \in GraceProcs :
          /\ gpc[p] = "select" /\ gpc'[p] # "select" =>
                gExits'[p] = {e \in ExitRows :
                                 /\ gNow[p] - e.ts > AUTO_DELAY
                                 /\ gNow[p] - e.ts < STALE_AGE}
          /\ gCur'[p] # gCur[p] /\ gCur'[p] # NoRow => gCur'[p] \in gExits[p]
          /\ \A u \in updates' \ updates :
                u.kind = "grace" /\ u.by = p => u.row = gCur[p].id
          /\ gpc'[p] # gpc[p] =>
                \A e \in ExitRows : now - e.ts <= AUTO_DELAY => e \in events'
          /\ gpc[p] = "idle" /\ gpc'[p] = "select" =>
                /\ events' = events \ {e \in ExitRows : now - e.ts > STALE_AGE}
                /\ sessions' = sessions
                /\ notifs' = notifs
                /\ updates' = updates]_vars

\* an exit_detected row more than 24 hours old has just been purged: its
\* location_fix is left, the session is open and nothing else was written
C22_Witness ==
    /\ gpc["g1"] = "select"
    /\ tpc = "idle"
    /\ sessions["s1"].clock_out = NULL
    /\ notifs = <<>>
    /\ ~HandledEventExists("s1")
    /\ \E f \in events :
          /\ f.type = "location_fix" /\ f.sid = "s1" /\ f.dist = 130
          /\ gNow["g1"] - f.ts > STALE_AGE
          /\ ~\E e \in ExitRows : e.ts = f.ts

\* C23: the resolved_at of an exit_detected row, once set, stays as it is; a
\* row that was resolved when check-grace-expiry selected it gets no re_entry
\* event and no clock entry update from that invocation; and the overtime sweep
\* closes a session for leaving the site only on an unresolved row.
C23_ResolvedIsTerminal ==
    [][/\ \A e \in ExitRows, e2 \in events' :
             e.resolved_at # NULL /\ e2.id = e.id => e2.resolved_at = e.resolved_at
       /\ \A p \in GraceProcs :
             gCur[p] # NoRow /\ gCur[p].resolved_at # NULL =>
                /\ gpc'[p] \notin {"ins_reentry", "update", "ins_confirmed", "notify"}
                /\ \A e \in events' \ events :
                      e.sid = gCur[p].sid =>
                         e.type \notin {"re_entry", "exit_confirmed"}
       /\ \A p \in MonProcs :
             mpc[p] = "row" /\ mpc'[p] = "update" /\ mCur'[p].cause = "site" =>
                \E e \in ExitRows :
                   /\ e.sid = mCur'[p].sid
                   /\ e.resolved_at = NULL
                   /\ e.ts = mCur'[p].exitTs]_vars

\* the exit_confirmed events of a session
Confirmations(sid) == {e \in events : e.sid = sid /\ e.type = "exit_confirmed"}

\* C24: whatever the exit_detected rows of a session and however the
\* invocations of check-grace-expiry overlap, at most one exit_confirmed event
\* of the session is ever on record.
C24_OneConfirmation ==
    \A s \in Sessions : Cardinality(Confirmations(s)) <= 1

\* an accurate location_fix of the session after the instant t, inside the radius
BackInsideSince(sid, t) ==
    \E f \in events : /\ f.sid = sid /\ f.type = "location_fix"
                      /\ f.ts > t /\ f.dist <= f.radius
                      /\ f.acc <= ACCURACY_PASS_M

\* C25: when check-clock-status decides to close an overtime session for leaving
\* the site, on an unresolved exit_detected row at T1, no location_fix after T1
\* shows the worker back inside the radius with an accuracy of 50 m or better.
C25_MonitorHonoursReentry ==
    [][\A p \in MonProcs :
          (/\ mImpl[p] = "ccs"
           /\ mpc[p] = "row"
           /\ mpc'[p] = "update"
           /\ mCur'[p].cause = "site") =>
              ~BackInsideSince(mCur'[p].sid, mCur'[p].exitTs)]_vars

\* ------------------------------------------------ the applicability gate
\* C26: a sample of an open overtime session on a valid, fenced site is
\* answered inside_fence or exit_detected, whatever the shift end of the worker
\* and the time.
C26_OvertimeAlwaysTested ==
    /\ Answered
    /\ tReq.is_overtime
    /\ tReq.found
    /\ FencedSite(tReq.sid)
    => ExitTested(tReq)

\* an exit of an overtime session recorded after the shift end of a worker
\* whose shift end does not parse
C26_Witness ==
    /\ Answered
    /\ tReq.is_overtime
    /\ FencedSite(tReq.sid)
    /\ shiftEnd[sessions[tReq.sid].worker_id] = Text(<<"2", "5", ":", "0", "0">>)
    /\ tReq.gateAt > 1170
    /\ tReq.resp.status = "exit_detected"

\* the request only logged the sample: it is answered geofence_disabled and has
\* written exactly one location_fix row, with distance and threshold 0
OnlyLogged(req) ==
    /\ req.resp.status = "geofence_disabled"
    /\ req.fixes = 1
    /\ \E e \in events :
          /\ e.type = "location_fix" /\ e.sid = req.sid
          /\ e.ts = req.ts /\ e.acc = req.acc
          /\ e.dist = 0 /\ e.thr = 0

\* no exit_detected row of a session whose site has the geofence off
NoExitWhenDisabled ==
    \A e \in ExitRows : jobs[e.sid].enabled

\* C27 (as claimed): every sample of an open session whose site has the geofence
\* disabled is only logged, and no exit_detected row is written for such a site.
C27_DisabledOnlyLogs ==
    /\ NoExitWhenDisabled
    /\ (Answered /\ tReq.found /\ ~jobs[tReq.sid].enabled) => OnlyLogged(tReq)

\* C27 (amended): the same for a site that has its coordinates and its radius;
\* a site without them is answered "Invalid job data" and nothing is written.
C27_DisabledValidSiteOnlyLogs ==
    /\ NoExitWhenDisabled
    /\ (/\ Answered /\ tReq.found /\ ~jobs[tReq.sid].enabled
        /\ jobs[tReq.sid].located /\ jobs[tReq.sid].radius # 0) => OnlyLogged(tReq)
    /\ (/\ Answered /\ tReq.found /\ ~jobs[tReq.sid].enabled
        /\ ~(jobs[tReq.sid].located /\ jobs[tReq.sid].radius # 0)) =>
           /\ tReq.resp.error = "Invalid job data"
           /\ tReq.fixes = 0

\* a sample far outside, of poor accuracy, was only logged
C27_Witness ==
    /\ Answered
    /\ ~jobs[tReq.sid].enabled
    /\ jobs[tReq.sid].located
    /\ tReq.measured = 130
    /\ tReq.acc = 80
    /\ OnlyLogged(tReq)

\* ------------------------------------------------ failing calls, retried
\* the update of check-grace-expiry failed for the row, in some invocation
UpdateFailedFor(row) ==
    \E u \in updates : u.kind = "grace_failed" /\ u.row = row.id

\* C28: when the update of check-grace-expiry has failed for the row of a
\* session nobody clocked out, the invocation leaves the row in place, the
\* session open, and writes no exit_confirmed event and no notification; and a
\* later invocation that takes the row up with no failure, no re-entry and no
\* manual clock-out closes the session at the timestamp of the row, with its
\* exit_confirmed event and its notification (one at most, and exactly one
\* when the update was the only call that failed).
C28_FailedUpdateRetried ==
    \A p \in GraceProcs :
       LET row == gCur[p]
           sid == gCur[p].sid
       IN  (RowDone(p) /\ UpdateFailedFor(row) /\ ~ManuallyClosed(sessions[sid])) =>
              /\ row.id \in gFacts[p].failed =>
                    /\ row \in events
                    /\ sessions[sid].clock_out = NULL
                    /\ Confirmations(sid) = {}
                    /\ GeofenceNotifs(sessions[sid].worker_id) = 0
              /\ (/\ row.id \notin gFacts[p].failed
                  /\ gFacts[p].open
                  /\ ~gFacts[p].handled
                  /\ ~BackInsideFixExists(row)) =>
                    /\ sessions[sid].clock_out = row.ts
                    /\ Cardinality(Confirmations(sid)) = 1
                    /\ GeofenceNotifs(sessions[sid].worker_id) <= 1
                    /\ (faults = MaxFaults - 1 =>
                           GeofenceNotifs(sessions[sid].worker_id) = 1)
                    /\ row \notin events

\* the row whose update failed in one invocation has been finalized by the next
C28_Witness ==
    \E p \in GraceProcs :
       /\ RowDone(p)
       /\ UpdateFailedFor(gCur[p])
       /\ gCur[p].id \notin gFacts[p].failed
       /\ gFacts[p].updated
       /\ sessions[gCur[p].sid].clock_out = gCur[p].ts
       /\ Confirmations(gCur[p].sid) # {}

\* C29: when the insert of a notification fails, in check-grace-expiry or in an
\* overtime sweep, the step changes no clock entry and no event, and the sweep
\* goes on where it goes after a notification that was stored: to its next row.
C29_NotifyBestEffort ==
    [][/\ \A p \in GraceProcs :
            (gpc[p] = "notify" /\ gpc'[p] # "notify" /\ notifs' = notifs) =>
               /\ sessions' = sessions
               /\ events' = events
               /\ gpc'[p] = "loop"
               /\ gExits'[p] = gExits[p]
       /\ \A p \in MonProcs :
            (mpc[p] \in {"n_insert", "n_plain"} /\ mpc'[p] # mpc[p]
             /\ notifs' = notifs) =>
               /\ sessions' = sessions
               /\ events' = events
               /\ mpc'[p] \in {"row", "shift_read"}
               /\ mRows'[p] = mRows[p]]_vars

\* the notification of a clock-out was lost: the session is closed at the
\* timestamp of the exit, with its hours, and the sweep has gone on
C29_Witness ==
    \E p \in GraceProcs :
       /\ RowDone(p)
       /\ gFacts[p].updated
       /\ sessions[gCur[p].sid].clock_out = gCur[p].ts
       /\ sessions[gCur[p].sid].total_hours = gCur[p].ts - sessions[gCur[p].sid].clock_in
       /\ Confirmations(gCur[p].sid) # {}
       /\ notifs = <<>>

\* ------------------------------------------- what the finalization records
\* the step of check-grace-expiry that closed the clock entry of its row
GraceFinalizes(p) ==
    /\ gpc[p] = "update"
    /\ gpc'[p] = "ins_confirmed"
    /\ sessions[gCur[p].sid].clock_out = NULL
    /\ sessions'[gCur[p].sid].clock_out # NULL

\* C30: the update of check-grace-expiry that closes a clock entry leaves it with
\* auto_clocked_out = true, auto_clockout_type = geofence_based and the
\* distance, accuracy, threshold and radius of the exit row as geofence_exit_data.
C30_GeofenceBased ==
    [][\A p \in GraceProcs :
          GraceFinalizes(p) =>
             LET after == sessions'[gCur[p].sid]
             IN  /\ after.auto_clocked_out
                 /\ after.auto_clockout_type = "geofence_based"
                 /\ after.geofence_exit_data = GeofenceExitData(gCur[p])]_vars

\* ------------------------------------------- the overtime sweep and its exits
\* check-clock-status has closed the overtime entry and is through with it
ClosedByMonitor(sid) ==
    /\ sessions[sid].is_overtime
    /\ sessions[sid].clock_out # NULL
    /\ \E u \in updates : u.kind = "ccs" /\ u.sid = sid /\ u.wrote = sessions[sid].clock_out
    /\ \A p \in MonProcs : mpc[p] \in {"update", "resolve"} => mCur[p].sid # sid

\* C31: once check-clock-status has closed an overtime entry and marked its
\* exits resolved, no exit_detected row of the entry has resolved_at = null,
\* also while track-location is working on a sample of the entry.
C31_NoPendingExitAfterClose ==
    \A sid \in Sessions :
        ClosedByMonitor(sid) => UnresolvedExits(events, sid) = {}

\* an unresolved exit_detected row of the entry is at least the grace period old
ExitPastGrace(sid, t) ==
    \E e \in UnresolvedExits(events, sid) : t - e.ts >= GRACE_PERIOD_MINUTES

\* C32: check-clock-status tests the exits of an open overtime entry before the
\* 3-hour limit: an entry with an unresolved exit_detected row at least the
\* grace period old is closed for leaving the site, whatever the time elapsed,
\* with auto_clockout_type geofence_based and the hours elapsed capped at 3; it is
\* closed for the limit only with no such row and 3 hours or more elapsed.
C32_ExitBeforeCap ==
    [][\A p \in MonProcs :
          mImpl[p] = "ccs" =>
             /\ (mpc[p] = "row" /\ mRows'[p] # mRows[p]) =>
                   \A s \in mRows[p] \ mRows'[p] :
                      /\ ExitPastGrace(s, now) =>
                            mpc'[p] = "update" /\ mCur'[p].cause = "site"
                      /\ (mpc'[p] = "update" /\ mCur'[p].cause = "limit") =>
                            /\ ~ExitPastGrace(s, now)
                            /\ now - sessions[s].clock_in >= MAX_OT_HOURS * HOUR
             /\ (mpc[p] = "update" /\ mpc'[p] = "resolve" /\ mCur[p].cause = "site") =>
                   LET after == sessions'[mCur[p].sid]
                   IN  /\ after.auto_clockout_type = "geofence_based"
                       /\ after.total_hours <= MAX_OT_HOURS * HOUR
                       /\ after.total_hours =
                             IF mCur[p].hrs > MAX_OT_HOURS * HOUR
                             THEN MAX_OT_HOURS * HOUR ELSE mCur[p].hrs]_vars

\* check-clock-status has closed for leaving the site an overtime entry that had
\* run for more than 3 hours, and has recorded 3 hours
C32_Witness ==
    \E u \in updates :
       /\ u.kind = "ccs"
       /\ u.cause = "site"
       /\ u.wrote - sessions[u.sid].clock_in > MAX_OT_HOURS * HOUR
       /\ sessions[u.sid].clock_out = u.wrote
       /\ sessions[u.sid].total_hours = MAX_OT_HOURS * HOUR
       /\ sessions[u.sid].auto_clockout_type = "geofence_based"

\* ------------------------------------------------- the two rules of an exit
\* (a) the distance has reached the threshold (kept in quarters of a metre)
OvershootRule(call) == 4 * call.distance >= call.threshold
\* (b) an accuracy of 50 m or better and the distance has reached the radius plus
\* the larger of 25 m and half the accuracy (in half metres)
MarginRule(call) ==
    /\ call.accuracy <= 50
    /\ LET margin == IF call.accuracy > 50 THEN call.accuracy ELSE 50
       IN  2 * call.distance - 2 * call.radius >= margin

\* C33: reliableExit(distance, accuracy, radius, threshold) is true exactly when
\* distance >= threshold, or accuracy <= 50 and
\* distance >= radius + max(25, accuracy / 2).
C33_ReliableExitRules ==
    (fnCall.fn = "reliableExit" /\ fnCall.done) =>
        (fnCall.exit <=> (OvershootRule(fnCall) \/ MarginRule(fnCall)))

\* an inaccurate fix between the margin and the threshold has been refused
C33_Witness ==
    /\ fnCall.fn = "reliableExit"
    /\ fnCall.done
    /\ ~fnCall.exit
    /\ fnCall.accuracy > 50
    /\ fnCall.distance >= fnCall.radius + 30
    /\ 4 * fnCall.distance < fnCall.threshold

\* ------------------------------------------------ the text of the shift end
\* the sample of a regular session got as far as the shift end of its worker
AtShiftEnd(req) == req.gateAt # NULL /\ ~req.is_overtime

\* C34: for a sample of a regular session that gets as far as the shift end, an
\* absent, empty or blank shift end is answered no_shift_end; a text that is in
\* neither notation, or names no time of day, is answered invalid_shift_end; a
\* time of day written HH:MM, HH:MM:SS or h[:mm] am/pm in any letter case is
\* answered neither; and with the first two answers no exit_detected row exists.
C34_ShiftEndForms ==
    (Answered /\ AtShiftEnd(tReq)) =>
        LET col == shiftEnd[sessions[tReq.sid].worker_id]
            status == tReq.resp.status
        IN  /\ col \in EmptyTexts => status = "no_shift_end"
            /\ col \in MalformedTexts \cup OutOfRangeTexts => status = "invalid_shift_end"
            /\ col \in TimeTexts =>
                  status \in {"outside_window", "inside_fence", "exit_detected"}
            /\ status \in {"no_shift_end", "invalid_shift_end"} => ExitRows = {}

\* a shift end typed in the 12-hour notation in capitals was read as 19:30 and
\* the sample has passed the exit test
C34_Witness ==
    /\ Answered
    /\ AtShiftEnd(tReq)
    /\ shiftEnd[sessions[tReq.sid].worker_id] = Text(<<"7", ":", "3", "0", "P", "M">>)
    /\ tReq.resp.status = "exit_detected"
    /\ ExitRows # {}

\* ------------------------------------- what follows an update without effect
\* the update the invocation issued for its row changed the clock entry
OwnUpdateMatched(p) ==
    \E u \in GraceUpdates : u.by = p /\ u.row = gCur[p].id /\ u.matched

\* C35: check-grace-expiry inserts the exit_confirmed event and the notification
\* of a row only when its own update of the clock entry matched it (clock_out
\* went from null to the exit timestamp), and an overtime sweep inserts its
\* notification only when its own update closed an entry that was open.
C35_OnlyAfterOwnClose ==
    [][/\ \A p \in GraceProcs :
            (\/ gpc[p] = "ins_confirmed" /\ events' # events
             \/ gpc[p] = "notify" /\ notifs' # notifs) =>
                OwnUpdateMatched(p)
       /\ \A p \in MonProcs :
            (/\ mpc[p] \in {"n_insert", "n_plain"}
             /\ notifs' # notifs
             /\ notifs'[Len(notifs')].type \in {"ot_auto_clockout", "overtime_auto_clockout"}) =>
                mCur[p].changed]_vars

\* ------------------------------------------------ several exits of a session
\* the rows of the same clock entry the invocation selected and has yet to take up
OtherSelected(p) ==
    {e \in gExits[p] : e.sid = gCur[p].sid /\ e \in events}

\* C36: when check-grace-expiry closes a regular session on one of several
\* exit_detected rows it selected for it, with no re-entry, the clock_out it
\* writes is the earliest of their timestamps.
C36_EarliestExitWins ==
    [][\A p \in GraceProcs :
          (GraceFinalizes(p) /\ ~ReentryRecorded(gCur[p].sid, now)) =>
             \A e \in OtherSelected(p) :
                sessions'[gCur[p].sid].clock_out <= e.ts]_vars

\* ------------------------------------------------ an exit is outside the fence
\* the location_fix row track-location stored for the sample of an exit row
OwnFixes(exit) ==
    {f \in events : /\ f.type = "location_fix"
                    /\ f.sid = exit.sid
                    /\ f.ts = exit.ts
                    /\ f.dist = exit.dist
                    /\ f.acc = exit.acc}

\* C37: every exit_detected row track-location writes, for a site of any radius
\* above 0 and a sample of any accuracy, has distance_from_center > job_radius,
\* and the location_fix row of its own sample is no fix that shows the worker
\* back inside after it.
C37_ExitOutsideFence ==
    \A e \in ExitRows :
        /\ e.radius > 0
        /\ e.dist > e.radius
        /\ OwnFixes(e) \cap InsideFixes(events, e) = {}

\* an exit accepted by the margin rule, 25 m past the edge and short of the
\* threshold
C37_Witness ==
    \E e \in ExitRows :
        /\ 4 * e.dist < e.thr
        /\ e.dist = e.radius + 25
        /\ OwnFixes(e) # {}

\* ------------------------------------------------ samples of no open session
\* the worker the payload of a request names
PayloadWorker(req) ==
    IF "wid" \in DOMAIN req THEN req.wid ELSE sessions[req.sid].worker_id

\* the payload names a clock entry that is open and belongs to its worker
OpenFor(sid, wid) == EntryOf(sid, wid) /\ sessions[sid].clock_out = NULL

\* C38: a sample whose payload names a clock entry that is closed, belongs to
\* another worker or does not exist is answered not_clocked_in, and the request
\* appends no geofence event and changes no clock entry; a sample of an open
\* entry whose site lacks coordinates or a radius is answered "Invalid job data"
\* and appends no event either.
C38_NoEventWithoutOpenSession ==
    [][(tpc = "idle" /\ samples' < samples) =>
          LET req == tReq'
              open == OpenFor(req.sid, PayloadWorker(req))
          IN  /\ ~open =>
                    /\ tpc' = "idle"
                    /\ req.resp.status = "not_clocked_in"
                    /\ events' = events
                    /\ sessions' = sessions
              /\ (open /\ (~jobs[req.sid].located \/ jobs[req.sid].radius = 0)) =>
                    /\ tpc' = "idle"
                    /\ req.resp.error = "Invalid job data"
                    /\ events' = events]_vars

\* a sample posted for the open session of w1 with the id of w2 has been
\* answered not_clocked_in, after one of w1 was stored
C38_Witness ==
    /\ Answered
    /\ tReq.sid = "s1"
    /\ PayloadWorker(tReq) = "w2"
    /\ sessions["s1"].clock_out = NULL
    /\ tReq.resp.status = "not_clocked_in"
    /\ Cardinality(events) = 1

\* ------------------------------------------------ merging overtime hours
\* C39: a call of mergeOvertimeHours for an overtime entry whose hours an
\* earlier call has merged leaves the total_hours of the linked shift as that
\* call left them; and a call for an entry that is not approved, not clocked
\* out, not linked to a shift or without total_hours returns false and changes
\* no clock entry.
C39_MergeOnce ==
    [][/\ (mergeCall.pc = "update" /\ Merged(mergeCall) > 0) =>
             sessions'[mergeCall.linked].total_hours =
                sessions[mergeCall.linked].total_hours
       /\ (mergeCall.pc = "read_entry" /\ NotReady(sessions[mergeCall.otEntryId])) =>
             /\ fnCall'.returned = "false"
             /\ sessions' = sessions]_vars

====
